---- MODULE Spec2Model ----
(***************************************************************************)
(* A model of jax-ov: the period aggregator (internal/analysis), the       *)
(* incremental log reader (internal/server), the threshold evaluator       *)
(* (internal/notifications), the notification service (cmd/notifications)  *)
(* and the fan-out server (internal/server, cmd/server).                   *)
(*                                                                         *)
(* Conventions.                                                            *)
(*  - Time is counted in units of 30 seconds (one notification window).    *)
(*    A clock value k stands for a wall-clock instant strictly inside      *)
(*    (k, k+1); bucket boundaries are whole units.                         *)
(*  - A price (VWAP) is carried in hundredths, so that volume x VWAP x 100 *)
(*    is the integer  volume x price-in-hundredths.                        *)
(*  - float64 is modelled by a binary floating point of MantBits           *)
(*    significant bits with round-to-nearest-even (FRound).  A quotient is *)
(*    carried as the reduced fraction of its operands.                     *)
(***************************************************************************)
EXTENDS Integers, Sequences, FiniteSets, TLC

(***************************************************************************)
(* Bounds of the model.                                                    *)
(***************************************************************************)
MantBits == 16
MaxTicks == 3
MaxFile == 6
MaxClock == 6
MaxStates == 2
MaxHandlers == 2
MaxConns == 1
MaxEvents == 1
MaxPuts == 3
MaxDays == 1
MaxBurst == 3
MaxSteps == 8
MaxWindows == 9

(***************************************************************************)
(* Program constants.                                                      *)
(***************************************************************************)
WindowSeconds == 30
InfiniteRatio == -1

\* the time unit is one notification window
SecondsPerUnit == WindowSeconds
MillisPerUnit == 1000 * SecondsPerUnit
UnitsPerMinute == 60 \div SecondsPerUnit

(***************************************************************************)
(* float64, scaled down to MantBits significant bits.                      *)
(***************************************************************************)
RECURSIVE Pow2(_)
Pow2(n) == IF n = 0 THEN 1 ELSE 2 * Pow2(n - 1)

RECURSIVE Log2Floor(_)
Log2Floor(x) == IF x < 2 THEN 0 ELSE 1 + Log2Floor(x \div 2)

FRoundAbs(x) ==
    IF x < Pow2(MantBits) THEN x
    ELSE LET ulp == Pow2(Log2Floor(x) - MantBits + 1)
             q   == x \div ulp
             r   == x % ulp
             up  == \/ 2 * r > ulp
                    \/ (2 * r = ulp /\ q % 2 = 1)
         IN  IF up THEN (q + 1) * ulp ELSE q * ulp

FRound(x) == IF x < 0 THEN 0 - FRoundAbs(0 - x) ELSE FRoundAbs(x)

FAdd(a, b) == FRound(a + b)

FMul(a, b) == FRound(a * b)

RECURSIVE GCD(_, _)
GCD(a, b) == IF b = 0 THEN a ELSE GCD(b, a % b)

Abs(x) == IF x < 0 THEN 0 - x ELSE x

\* a / b for b # 0, as the reduced fraction <<numerator, denominator>>, denominator > 0
FDiv(a, b) ==
    LET g == GCD(Abs(a), Abs(b))
        s == IF b < 0 THEN 0 - 1 ELSE 1
    IN  << s * (a \div g), s * (b \div g) >>

Rat(n) == << n, 1 >>

\* r >= t on fractions with positive denominators
RatGE(r, t) == r[1] * t[2] >= t[1] * r[2]

RatGT(r, t) == r[1] * t[2] > t[1] * r[2]

(***************************************************************************)
(* internal/analysis: ticks, option type, premium, period rounding.        *)
(***************************************************************************)
Digits == {"0", "1", "2", "3", "4", "5", "6", "7", "8", "9"}

\* option symbols, one character per element
SymCall == << "O", ":", "A", "2", "3", "0", "6", "1", "6", "C", "1" >>
SymPut == << "O", ":", "A", "2", "3", "0", "6", "1", "6", "P", "1" >>
SymNoType == << "O", ":", "A", "2", "3", "0", "6", "1", "6", "X", "1" >>
SymShort == << "O", ":", "A", "C", "1" >>

\* strings.TrimPrefix(symbol, "O:")
TrimPrefix(symbol) ==
    IF Len(symbol) >= 2 /\ symbol[1] = "O" /\ symbol[2] = ":"
    THEN SubSeq(symbol, 3, Len(symbol))
    ELSE symbol

\* the type found at index i, scanning down from i; "error" when none
RECURSIVE ScanOptionType(_, _)
ScanOptionType(symbol, i) ==
    IF i < 1 THEN "error"
    ELSE IF symbol[i] = "C" /\ i + 1 <= Len(symbol) /\ symbol[i + 1] \in Digits
         THEN "call"
    ELSE IF symbol[i] = "P" /\ i + 1 <= Len(symbol) /\ symbol[i + 1] \in Digits
         THEN "put"
    ELSE ScanOptionType(symbol, i - 1)

ParseOptionType(symbol) ==
    LET trimmed == TrimPrefix(symbol)
    IN  IF Len(trimmed) < 7 THEN "error"
        ELSE ScanOptionType(trimmed, Len(trimmed))

\* float64(volume) * vw * 100, the price vw being carried in hundredths
CalculatePremium(volume, vw) == FMul(volume, vw)

\* a timestamp rounded down to its N-minute boundary (midnight is 0)
RoundDownToPeriod(timestamp, minutes) ==
    LET totalMinutes   == timestamp \div UnitsPerMinute
        roundedMinutes == (totalMinutes \div minutes) * minutes
    IN  roundedMinutes * UnitsPerMinute

PeriodUnits(minutes) == minutes * UnitsPerMinute

\* a TimePeriodSummary with zero premiums
NewSummary(periodStart, periodEnd) ==
    [PeriodStart |-> periodStart, PeriodEnd |-> periodEnd,
     CallPremium |-> 0, PutPremium |-> 0, TotalPremium |-> 0,
     CallPutRatio |-> Rat(0), CallVolume |-> 0, PutVolume |-> 0]

\* an aggregation step that books a tick with an unparseable symbol as a put
AggregateStepAnyType(periodMap, agg, periodMinutes) ==
    LET optionType  == ParseOptionType(agg.Symbol)
        premium     == CalculatePremium(agg.Volume, agg.VWAP)
        periodStart == RoundDownToPeriod(agg.StartTimestamp, periodMinutes)
        periodEnd   == periodStart + PeriodUnits(periodMinutes)
        summary     == IF periodStart \in DOMAIN periodMap
                       THEN periodMap[periodStart]
                       ELSE NewSummary(periodStart, periodEnd)
        added       == IF optionType = "call"
                       THEN [summary EXCEPT !.CallPremium = FAdd(@, premium),
                                            !.CallVolume = @ + agg.Volume]
                       ELSE [summary EXCEPT !.PutPremium = FAdd(@, premium),
                                            !.PutVolume = @ + agg.Volume]
        total       == FAdd(added.CallPremium, added.PutPremium)
        ratio       == IF added.PutPremium > 0
                       THEN FDiv(added.CallPremium, added.PutPremium)
                       ELSE IF added.CallPremium > 0 THEN Rat(InfiniteRatio)
                       ELSE Rat(0)
        updated     == [added EXCEPT !.TotalPremium = total, !.CallPutRatio = ratio]
    IN  [k \in DOMAIN periodMap \cup {periodStart} |->
            IF k = periodStart THEN updated ELSE periodMap[k]]

\* the body of AggregatePremiums's loop for one aggregate
AggregateStep(periodMap, agg, periodMinutes) ==
    LET optionType == ParseOptionType(agg.Symbol)
    IN  IF optionType = "error" THEN periodMap
        ELSE
        LET premium     == CalculatePremium(agg.Volume, agg.VWAP)
            periodStart == RoundDownToPeriod(agg.StartTimestamp, periodMinutes)
            periodEnd   == periodStart + PeriodUnits(periodMinutes)
            summary     == IF periodStart \in DOMAIN periodMap
                           THEN periodMap[periodStart]
                           ELSE NewSummary(periodStart, periodEnd)
            added       == IF optionType = "call"
                           THEN [summary EXCEPT !.CallPremium = FAdd(@, premium),
                                                !.CallVolume = @ + agg.Volume]
                           ELSE [summary EXCEPT !.PutPremium = FAdd(@, premium),
                                                !.PutVolume = @ + agg.Volume]
            total       == FAdd(added.CallPremium, added.PutPremium)
            ratio       == IF added.PutPremium > 0
                           THEN FDiv(added.CallPremium, added.PutPremium)
                           ELSE IF added.CallPremium > 0 THEN Rat(InfiniteRatio)
                           ELSE Rat(0)
            updated     == [added EXCEPT !.TotalPremium = total, !.CallPutRatio = ratio]
        IN  [k \in DOMAIN periodMap \cup {periodStart} |->
                IF k = periodStart THEN updated ELSE periodMap[k]]

RECURSIVE AggregateLoop(_, _, _, _)
AggregateLoop(aggregates, i, periodMap, periodMinutes) ==
    IF i > Len(aggregates) THEN periodMap
    ELSE AggregateLoop(aggregates, i + 1,
                       AggregateStep(periodMap, aggregates[i], periodMinutes),
                       periodMinutes)

EmptyMap == [k \in {} |-> 0]

\* the summaries of a map as a slice in descending order of PeriodStart
RECURSIVE SortDescending(_)
SortDescending(periodMap) ==
    IF DOMAIN periodMap = {} THEN << >>
    ELSE LET last == CHOOSE k \in DOMAIN periodMap : \A j \in DOMAIN periodMap : k >= j
         IN  << periodMap[last] >> \o
             SortDescending([k \in DOMAIN periodMap \ {last} |-> periodMap[k]])

\* the summaries of a map as a slice sorted by PeriodStart
RECURSIVE SortByPeriodStart(_)
SortByPeriodStart(periodMap) ==
    IF DOMAIN periodMap = {} THEN << >>
    ELSE LET first == CHOOSE k \in DOMAIN periodMap : \A j \in DOMAIN periodMap : k <= j
         IN  << periodMap[first] >> \o
             SortByPeriodStart([k \in DOMAIN periodMap \ {first} |-> periodMap[k]])

AggregatePremiums(aggregates, periodMinutes) ==
    SortByPeriodStart(AggregateLoop(aggregates, 1, EmptyMap, periodMinutes))

\* UpdateStep with the total and the ratio left as they were before the addition
UpdateStepStale(summary, agg, periodMinutes) ==
    LET optionType == ParseOptionType(agg.Symbol)
        premium    == CalculatePremium(agg.Volume, agg.VWAP)
    IN  IF optionType = "error" THEN summary
        ELSE IF RoundDownToPeriod(agg.StartTimestamp, periodMinutes) # summary.PeriodStart
             THEN summary
        ELSE IF optionType = "call"
             THEN [summary EXCEPT !.CallPremium = FAdd(@, premium),
                                  !.CallVolume = @ + agg.Volume]
        ELSE [summary EXCEPT !.PutPremium = FAdd(@, premium),
                             !.PutVolume = @ + agg.Volume]

\* the body of UpdatePeriodSummaryIncremental's loop for one aggregate
UpdateStep(summary, agg, periodMinutes) ==
    LET optionType == ParseOptionType(agg.Symbol)
    IN  IF optionType = "error" THEN summary
        ELSE
        LET premium     == CalculatePremium(agg.Volume, agg.VWAP)
            periodStart == RoundDownToPeriod(agg.StartTimestamp, periodMinutes)
        IN  IF periodStart # summary.PeriodStart THEN summary
            ELSE
            LET added == IF optionType = "call"
                         THEN [summary EXCEPT !.CallPremium = FAdd(@, premium),
                                              !.CallVolume = @ + agg.Volume]
                         ELSE [summary EXCEPT !.PutPremium = FAdd(@, premium),
                                              !.PutVolume = @ + agg.Volume]
                total == FAdd(added.CallPremium, added.PutPremium)
                ratio == IF added.PutPremium > 0
                         THEN FDiv(added.CallPremium, added.PutPremium)
                         ELSE IF added.CallPremium > 0 THEN Rat(InfiniteRatio)
                         ELSE Rat(0)
            IN  [added EXCEPT !.TotalPremium = total, !.CallPutRatio = ratio]

RECURSIVE UpdateLoop(_, _, _, _)
UpdateLoop(summary, aggregates, i, periodMinutes) ==
    IF i > Len(aggregates) THEN summary
    ELSE UpdateLoop(UpdateStep(summary, aggregates[i], periodMinutes),
                    aggregates, i + 1, periodMinutes)

UpdatePeriodSummaryIncremental(summary, aggregates, periodMinutes) ==
    UpdateLoop(summary, aggregates, 1, periodMinutes)

(***************************************************************************)
(* internal/notifications: EvaluateThresholds.                             *)
(* A config carries the premium thresholds as integers and the ratio       *)
(* thresholds as fractions.                                                *)
(***************************************************************************)
\* EvaluateThresholds with the ratio rules not gated by RatioPremiumThreshold
EvaluateThresholdsUngated(summary, config) ==
    \/ config.CallPremiumThreshold > 0 /\ summary.CallPremium >= config.CallPremiumThreshold
    \/ config.PutPremiumThreshold > 0 /\ summary.PutPremium >= config.PutPremiumThreshold
    \/ /\ RatGT(config.CallRatioThreshold, Rat(0))
       /\ RatGE(summary.CallPutRatio, config.CallRatioThreshold)
    \/ /\ RatGT(config.PutRatioThreshold, Rat(0))
       /\ summary.CallPremium > 0
       /\ RatGE(FDiv(summary.PutPremium, summary.CallPremium), config.PutRatioThreshold)

\* a call ratio rule that takes the sentinel for a ratio above every floor
CallRatioRuleInfinite(summary, config) ==
    /\ RatGT(config.CallRatioThreshold, Rat(0))
    /\ config.RatioPremiumThreshold > 0
    /\ summary.TotalPremium >= config.RatioPremiumThreshold
    /\ \/ summary.CallPutRatio = Rat(InfiniteRatio)
       \/ RatGE(summary.CallPutRatio, config.CallRatioThreshold)

\* the call ratio rule: both thresholds set, the gate met and the summary's
\* CallPutRatio at or above the floor
CallRatioRule(summary, config) ==
    /\ RatGT(config.CallRatioThreshold, Rat(0))
    /\ config.RatioPremiumThreshold > 0
    /\ summary.TotalPremium >= config.RatioPremiumThreshold
    /\ RatGE(summary.CallPutRatio, config.CallRatioThreshold)

\* the put ratio rule: both thresholds set, the gate met and the put/call
\* ratio, computed here, at or above the floor
PutRatioRule(summary, config) ==
    LET putRatio == IF summary.CallPremium > 0
                    THEN FDiv(summary.PutPremium, summary.CallPremium)
                    ELSE IF summary.PutPremium > 0 THEN Rat(InfiniteRatio)
                    ELSE Rat(0)
    IN  /\ RatGT(config.PutRatioThreshold, Rat(0))
        /\ config.RatioPremiumThreshold > 0
        /\ summary.TotalPremium >= config.RatioPremiumThreshold
        /\ RatGE(putRatio, config.PutRatioThreshold)

EvaluateThresholds(summary, config) ==
    LET callHit == /\ config.CallPremiumThreshold > 0
                   /\ summary.CallPremium >= config.CallPremiumThreshold
        putHit  == /\ config.PutPremiumThreshold > 0
                   /\ summary.PutPremium >= config.PutPremiumThreshold
    IN  IF callHit THEN TRUE
        ELSE IF putHit THEN TRUE
        ELSE IF CallRatioRule(summary, config) THEN TRUE
        ELSE IF PutRatioRule(summary, config) THEN TRUE
        ELSE FALSE

(***************************************************************************)
(* internal/server: the log file and ReadLogFileIncremental.               *)
(* A file is a sequence of bytes; a record is one body byte followed by a  *)
(* newline.  A body byte carries a whole JSON object (an aggregate) or is  *)
(* malformed.                                                              *)
(***************************************************************************)
NoTick == [Symbol |-> << >>, Volume |-> 0, VWAP |-> 0, StartTimestamp |-> 0]
Newline == [kind |-> "nl", agg |-> NoTick]
Malformed == [kind |-> "bad", agg |-> NoTick]
Body(agg) == [kind |-> "body", agg |-> agg]

\* the index of the first newline after offset pos, 0 when there is none
RECURSIVE NextNewline(_, _)
NextNewline(f, pos) ==
    IF pos >= Len(f) THEN 0
    ELSE IF f[pos + 1] = Newline THEN pos + 1
    ELSE NextNewline(f, pos + 1)

\* json.Unmarshal(line, &agg) succeeds
ValidJSON(line) == Len(line) = 1 /\ line[1].kind = "body"

\* ReadLogFileIncremental's loop with the partial line returned as consumed
RECURSIVE ReadLinesPartial(_, _, _, _, _)
ReadLinesPartial(f, lastPosition, pos, lastCompletePosition, aggregates) ==
    LET nl == NextNewline(f, pos)
    IN  IF nl = 0
        THEN [aggregates |-> aggregates,
              position |-> IF lastPosition > Len(f) THEN lastPosition ELSE Len(f),
              err |-> FALSE]
        ELSE LET line == SubSeq(f, pos + 1, nl - 1)
             IN  ReadLinesPartial(f, lastPosition, nl, lastCompletePosition + Len(line) + 1,
                     IF ValidJSON(line) THEN Append(aggregates, line[1].agg)
                     ELSE aggregates)

\* ReadLogFileIncremental's loop with the position left behind a malformed line
RECURSIVE ReadLinesStuck(_, _, _, _, _)
ReadLinesStuck(f, lastPosition, pos, lastCompletePosition, aggregates) ==
    LET nl == NextNewline(f, pos)
    IN  IF nl = 0
        THEN [aggregates |-> aggregates, position |-> lastCompletePosition, err |-> FALSE]
        ELSE LET line == SubSeq(f, pos + 1, nl - 1)
             IN  IF Len(line) = 0
                 THEN ReadLinesStuck(f, lastPosition, nl, lastCompletePosition + 1, aggregates)
                 ELSE IF ~ValidJSON(line)
                 THEN ReadLinesStuck(f, lastPosition, nl, lastCompletePosition, aggregates)
                 ELSE ReadLinesStuck(f, lastPosition, nl, lastCompletePosition + Len(line) + 1,
                                     Append(aggregates, line[1].agg))

\* ReadLogFileIncremental's loop: pos is the reader's place in the file,
\* lastCompletePosition the position counted from the lines read
RECURSIVE ReadLines(_, _, _, _, _)
ReadLines(f, lastPosition, pos, lastCompletePosition, aggregates) ==
    LET nl == NextNewline(f, pos)
    IN  IF nl = 0
        THEN IF pos < Len(f)
             \* EOF with a partial line: not processed, position before it
             THEN [aggregates |-> aggregates, position |-> lastCompletePosition,
                   err |-> FALSE]
             \* EOF, all complete: file.Seek(0, 1)
             ELSE [aggregates |-> aggregates,
                   position |-> IF lastPosition > Len(f) THEN lastPosition ELSE Len(f),
                   err |-> FALSE]
        ELSE LET line == SubSeq(f, pos + 1, nl - 1)
             IN  IF Len(line) = 0
                 THEN ReadLines(f, lastPosition, nl, lastCompletePosition + 1, aggregates)
                 ELSE IF ~ValidJSON(line)
                 THEN ReadLines(f, lastPosition, nl, lastCompletePosition + Len(line) + 1,
                                aggregates)
                 ELSE ReadLines(f, lastPosition, nl, lastCompletePosition + Len(line) + 1,
                                Append(aggregates, line[1].agg))

ReadLogFileIncremental(exists, f, lastPosition) ==
    IF ~exists
    THEN [aggregates |-> << >>, position |-> lastPosition, err |-> TRUE]
    ELSE ReadLines(f, lastPosition, lastPosition, lastPosition, << >>)

\* ReadLogFile's scanner loop: every line that unmarshals, the last line with
\* or without its newline
RECURSIVE ScanLines(_, _, _)
ScanLines(f, pos, aggregates) ==
    IF pos >= Len(f) THEN aggregates
    ELSE LET nl   == NextNewline(f, pos)
             stop == IF nl = 0 THEN Len(f) + 1 ELSE nl
             line == SubSeq(f, pos + 1, stop - 1)
         IN  ScanLines(f, stop,
                       IF ValidJSON(line) THEN Append(aggregates, line[1].agg)
                       ELSE aggregates)

ReadLogFile(f) == ScanLines(f, 0, << >>)

\* AnalyzeTickerAndDate: no file or no aggregates give no summaries
AnalyzeTickerAndDate(exists, f, periodMinutes) ==
    LET aggregates == ReadLogFile(f)
    IN  IF ~exists THEN << >>
        ELSE IF aggregates = << >> THEN << >>
        ELSE AggregatePremiums(aggregates, periodMinutes)

(***************************************************************************)
(* cmd/notifications: the ticker state and the file handler's processing.  *)
(***************************************************************************)
\* the -period flag, in minutes
PeriodMinutes == 1

Users == { "u1" }

\* the users' rule for the ticker: the call premium threshold of 50,000
RuleConfig ==
    [CallPremiumThreshold |-> 50000, PutPremiumThreshold |-> 0, RatioPremiumThreshold |-> 0,
     CallRatioThreshold |-> Rat(0), PutRatioThreshold |-> Rat(0)]

ZeroTime == 0 - 1

\* a lookup that finds rules for every ticker
HasNotificationsAlways(rs) == TRUE

\* the ticker is a key of what loadNotifications returned: a user has a rule
\* for it
HasNotifications(rs) == rs # {}

\* a TickerState; nilPeriods says that CurrentPeriods is a nil map, and
\* offsetDay is the day of the file that a LastFilePosition other than 0 was
\* obtained from
NewTickerState(now, nilPeriods) ==
    [alloc |-> TRUE,
     LastFilePosition |-> 0,
     NotifiedPeriods |-> [u \in Users |-> {}],
     MonitoringStartTime |-> now,
     LastProcessedPeriodEnd |-> ZeroTime,
     CurrentPeriods |-> EmptyMap,
     nilPeriods |-> nilPeriods,
     offsetDay |-> 0]

FreeState == [NewTickerState(0, FALSE) EXCEPT !.alloc = FALSE]

\* the dedup key of a completed period: its end in milliseconds
CompletedKey(periodEnd) == periodEnd * MillisPerUnit

\* the dedup key of an in-progress period: its end plus the 30-second window
InProgressKey(periodEnd, now) ==
    periodEnd * MillisPerUnit + ((now * SecondsPerUnit) \div WindowSeconds) * WindowSeconds

\* the handler's loop over the new aggregates (get or create the period's
\* summary, then UpdatePeriodSummaryIncremental)
RECURSIVE AccumulatePeriods(_, _, _)
AccumulatePeriods(periods, aggregates, i) ==
    IF i > Len(aggregates) THEN periods
    ELSE LET agg         == aggregates[i]
             periodStart == RoundDownToPeriod(agg.StartTimestamp, PeriodMinutes)
             periodEnd   == periodStart + PeriodUnits(PeriodMinutes)
             summary     == IF periodStart \in DOMAIN periods THEN periods[periodStart]
                            ELSE NewSummary(periodStart, periodEnd)
             updated     == UpdatePeriodSummaryIncremental(summary, << agg >>, PeriodMinutes)
         IN  AccumulatePeriods([k \in DOMAIN periods \cup {periodStart} |->
                                   IF k = periodStart THEN updated ELSE periods[k]],
                               aggregates, i + 1)

\* the periods kept after the clean-up: those that ended before now - 2 periods go
CleanUpPeriods(periods, now) ==
    LET keep == { k \in DOMAIN periods :
                    ~(periods[k].PeriodEnd + 2 * PeriodUnits(PeriodMinutes) <= now) }
    IN  [k \in keep |-> periods[k]]

\* a dedup check that finds no key
NeverNotified(userPeriods, key) == FALSE

\* userPeriods[notificationKey]
AlreadyNotified(userPeriods, key) == key \in userPeriods

\* the key recorded only after a push that succeeded
MarkNotifiedOnSuccess(userPeriods, key, ok) ==
    IF ok THEN userPeriods \cup {key} ELSE userPeriods

\* userPeriods[notificationKey] = true, whatever sendPushNotification returned
MarkNotified(userPeriods, key, ok) == userPeriods \cup {key}

\* the handler's loop over the users for one summary.  acc is the ticker
\* state, the log of evaluations and the last push so far; ctx is the run: now,
\* the state's id, the users' rules read at its start and whether
\* sendPushNotification succeeds for a user
RECURSIVE NotifyUsers(_, _, _, _, _)
NotifyUsers(acc, summary, isComplete, users, ctx) ==
    IF users = << >> THEN acc
    ELSE
    LET user == Head(users)
        key  == IF isComplete THEN CompletedKey(summary.PeriodEnd)
                ELSE InProgressKey(summary.PeriodEnd, ctx.now)
        entry == [sid |-> ctx.sid, user |-> user, periodEnd |-> summary.PeriodEnd,
                  complete |-> isComplete, window |-> ctx.now, key |-> key,
                  call |-> summary.CallPremium, outcome |-> "duplicate"]
        next ==
            IF AlreadyNotified(acc.state.NotifiedPeriods[user], key)
            THEN [acc EXCEPT !.log = Append(@, entry)]
            ELSE IF ~EvaluateThresholds(summary, RuleConfig)
            THEN [acc EXCEPT !.log = Append(@, [entry EXCEPT !.outcome = "below"])]
            \* sendPushNotification, its error only logged; then mark as notified
            ELSE [state |-> [acc.state EXCEPT !.NotifiedPeriods[user] =
                                 MarkNotified(@, key, ctx.pushOk[user])],
                  log   |-> Append(acc.log, [entry EXCEPT !.outcome = "push"]),
                  push  |-> [made |-> TRUE, sid |-> ctx.sid, user |-> user, key |-> key,
                             ok |-> ctx.pushOk[user]]]
    IN  NotifyUsers(next, summary, isComplete, Tail(users), ctx)

\* a period that never counts as completed before the monitoring began
SkipsNothing(isComplete, periodEnd, start) == FALSE

\* isComplete && periodEndTime.Before(monitoringStartTime): the period was
\* over when the monitoring began (the period ends on a window boundary, the
\* monitoring began inside window start)
CompletedBeforeMonitoring(isComplete, periodEnd, start) ==
    isComplete /\ periodEnd <= start

\* the handler's loop over the period summaries, in the order given
RECURSIVE ProcessSummaries(_, _, _, _)
ProcessSummaries(acc, summaries, i, ctx) ==
    IF i > Len(summaries) THEN acc
    ELSE
    LET summary    == summaries[i]
        periodEnd  == summary.PeriodEnd
        isComplete == ctx.now >= periodEnd
        beforeMonitoring == CompletedBeforeMonitoring(isComplete, periodEnd,
                                                      acc.state.MonitoringStartTime)
        alreadyProcessed ==
            /\ isComplete
            /\ acc.state.LastProcessedPeriodEnd # ZeroTime
            /\ ~(periodEnd > acc.state.LastProcessedPeriodEnd)
        notified == NotifyUsers(acc, summary, isComplete, ctx.users, ctx)
        marked ==
            IF isComplete /\ (\/ notified.state.LastProcessedPeriodEnd = ZeroTime
                              \/ periodEnd > notified.state.LastProcessedPeriodEnd)
            THEN [notified EXCEPT !.state.LastProcessedPeriodEnd = periodEnd]
            ELSE notified
    IN  IF beforeMonitoring \/ alreadyProcessed
        THEN ProcessSummaries(acc, summaries, i + 1, ctx)
        ELSE ProcessSummaries(marked, summaries, i + 1, ctx)

\* the orders in which a range over the map may visit its entries
MapOrders(periods) ==
    { order \in [1..Cardinality(DOMAIN periods) -> DOMAIN periods] :
        \A i, j \in DOMAIN order : order[i] = order[j] => i = j }

(***************************************************************************)
(* cmd/server: the ticker state and the watcher's processing.              *)
(***************************************************************************)
\* a TickerState of cmd/server with its initial-load goroutine: load is
\* "spawned", "read" (the summaries are read, the lock not yet taken) or "done"
NewServerState ==
    [alloc |-> TRUE,
     LastFilePosition |-> 0,
     hasCurrent |-> FALSE,
     CurrentPeriod |-> NewSummary(0, 0),
     LastPeriodEnd |-> 0,
     load |-> "spawned",
     loaded |-> << >>]

FreeServerState == [NewServerState EXCEPT !.alloc = FALSE, !.load = "done"]

\* the greatest member of a set of indexes, 0 for the empty set
LastOf(indexes) ==
    IF indexes = {} THEN 0
    ELSE CHOOSE i \in indexes : \A j \in indexes : j <= i

\* the initial load under state.mu: the file size, the current period and the
\* last completed period from the summaries read before the lock
ApplyInitialLoad(state, exists, f, now) ==
    LET summaries == state.loaded
        sized     == IF exists THEN [state EXCEPT !.LastFilePosition = Len(f)] ELSE state
        latest    == summaries[Len(summaries)]
        current   == IF now < latest.PeriodEnd + PeriodUnits(PeriodMinutes)
                     THEN [sized EXCEPT !.hasCurrent = TRUE, !.CurrentPeriod = latest]
                     ELSE sized
        last      == LastOf({ i \in DOMAIN summaries :
                                now >= summaries[i].PeriodEnd + PeriodUnits(PeriodMinutes) })
    IN  IF summaries = << >> THEN [sized EXCEPT !.load = "done"]
        ELSE [current EXCEPT !.load = "done",
                             !.LastPeriodEnd = IF last # 0 THEN summaries[last].PeriodEnd
                                               ELSE @]

\* the body of the watcher's loop for one aggregate: the ticker state after it
\* and the summaries handed to SendUpdateForTicker for it; ctx is now and what
\* AnalyzeTickerAndDate returns for the log file
WatchStep(state, agg, ctx) ==
    LET periodStart == RoundDownToPeriod(agg.StartTimestamp, PeriodMinutes)
        periodEnd   == periodStart + PeriodUnits(PeriodMinutes)
        isCurrentPeriod == ctx.now < periodEnd + PeriodUnits(PeriodMinutes)
        current == IF state.hasCurrent THEN state.CurrentPeriod
                   ELSE NewSummary(periodStart, periodEnd)
        samePeriod == current.PeriodStart = periodStart
        \* the current period, or the new one that replaces it, with the aggregate
        updated == UpdatePeriodSummaryIncremental(
                       IF samePeriod THEN current ELSE NewSummary(periodStart, periodEnd),
                       << agg >>, PeriodMinutes)
        oldDue  == /\ ctx.now >= current.PeriodEnd + PeriodUnits(PeriodMinutes)
                   /\ current.PeriodEnd > state.LastPeriodEnd
        \* AnalyzeTickerAndDate on the log file, which the run sees unchanged
        summaries == ctx.summaries
        found   == LastOf({ j \in DOMAIN summaries : summaries[j].PeriodEnd = periodEnd })
    IN  IF isCurrentPeriod
        THEN IF samePeriod
             THEN [state |-> [state EXCEPT !.hasCurrent = TRUE,
                                           !.CurrentPeriod = updated],
                   sent  |-> << updated >>]
             ELSE [state |-> [state EXCEPT
                                !.hasCurrent = TRUE,
                                !.CurrentPeriod = updated,
                                !.LastPeriodEnd = IF oldDue THEN current.PeriodEnd
                                                  ELSE @],
                   sent  |-> (IF oldDue THEN << current >> ELSE << >>)
                             \o << updated >>]
        ELSE IF periodEnd > state.LastPeriodEnd /\ found # 0
             THEN [state |-> [state EXCEPT !.LastPeriodEnd = periodEnd],
                   sent  |-> << summaries[found] >>]
             ELSE [state |-> state, sent |-> << >>]

\* the watcher's loop over the new aggregates.  acc is the ticker state, the
\* summaries handed to SendUpdateForTicker so far and, for each aggregate done,
\* its period and the summaries sent for it
RECURSIVE WatchAggregates(_, _, _, _)
WatchAggregates(acc, aggregates, i, ctx) ==
    IF i > Len(aggregates) THEN acc
    ELSE CHOOSE done \in
            { WatchAggregates(
                  [state   |-> step.state,
                   updates |-> acc.updates \o step.sent,
                   ticks   |-> Append(acc.ticks,
                                      [periodStart |->
                                           RoundDownToPeriod(aggregates[i].StartTimestamp,
                                                             PeriodMinutes),
                                       sent |-> step.sent])],
                  aggregates, i + 1, ctx)
              : step \in { WatchStep(acc.state, aggregates[i], ctx) } } : TRUE

\* a websocket connection: where its /analyze handler is, the history it has
\* to send, whether the peer is gone (writes fail), whether the peer has
\* stopped reading (writes do not return), its ping ("ok", "failed" once the
\* ping write has failed; once Run has taken it from the unregister channel,
\* "done" if Run deleted and closed it and "absent" if Run did not find it in
\* the registry), whether conn.Close() was called, the messages written to it,
\* the number of update writes on it that failed, and the ticker parameter of
\* its request, and the request's date parameter, and the goroutines that
\* are inside a write call on it ("history", "update", "ping")
NewConn == [phase |-> "new", history |-> << >>, sent |-> 0, broken |-> FALSE,
            stalled |-> FALSE, ping |-> "ok", closed |-> FALSE,
            out |-> << >>, failures |-> 0, query |-> << >>, date |-> "",
            writing |-> {}]

\* strings.ToUpper, on the letters that tickers are written with
UpperOf(ch) ==
    CASE ch = "a" -> "A"
      [] ch = "b" -> "B"
      [] ch = "x" -> "X"
      [] OTHER -> ch

ToUpper(str) == [i \in DOMAIN str |-> UpperOf(str[i])]

\* s.clients[conn] = &ClientInfo{Ticker: ticker}
Register(registry, conn, ticker) ==
    [c \in DOMAIN registry \cup {conn} |->
        IF c = conn THEN [Ticker |-> ticker] ELSE registry[c]]

\* delete(s.clients, conn)
DeleteClient(registry, conn) == [c \in DOMAIN registry \ {conn} |-> registry[c]]

\* a lookup that finds no connection
RegisteredNever(registry, conn) == FALSE

\* _, ok := s.clients[conn]
Registered(registry, conn) == conn \in DOMAIN registry

\* the tickers that have a registered connection
GetSubscribedTickers(registry) ==
    { registry[c].Ticker : c \in { d \in DOMAIN registry : registry[d].Ticker # << >> } }

\* a range over s.clients that takes every connection for a subscriber
SubscribedAny(info, ticker) == TRUE

\* info != nil && info.Ticker == ticker
Subscribed(info, ticker) == info.Ticker = ticker

\* the ticker of the one log file that cmd/server is modelled on
ServerTicker == ToUpper(<< "a", "b" >>)

Message(kind, summary) == [kind |-> kind, summary |-> summary]

(***************************************************************************)
(* State.                                                                  *)
(***************************************************************************)
VARIABLES
    aggIn,      \* the ticks handed to the aggregator
    aggPeriod,  \* the period width in minutes
    aggMode,    \* "input", "batch" or "inc": what has been applied to aggIn
    aggFirst,   \* AggregatePremiums on aggIn as given
    aggPerm,    \* AggregatePremiums on a permutation of aggIn
    inc,        \* a summary being kept by UpdatePeriodSummaryIncremental
    incNext,    \* index into aggIn of the next tick to apply to inc
    evSummary,  \* EvaluateThresholds: the summary
    evConfig,   \* EvaluateThresholds: the config
    evResult,   \* EvaluateThresholds: the result, "none" before the call
    file,       \* the bytes of the ticker's log file
    fileExists, \* whether the log file has been created
    rdOffset,   \* the offset the last incremental read returned
    rdDelivered,\* all aggregates the incremental reads have returned, in order
    rdLast,     \* the last incremental read: the file it saw and what it returned
    rdPrev,     \* the read before it
    clock,        \* wall-clock time: the 30-second window now is in
    reloadedAt,   \* the window of the last tick of the reload ticker
    rules,        \* the users who have a rule for the ticker on disk
    pending,      \* pendingFiles holds an entry for the log file
    tickerStates, \* tickerStates[ticker]: the id of a state, or 0 for none
    heap,         \* the TickerState objects created so far, by id
    handlers,     \* the handler goroutines: where each one is
    evalLog,      \* every evaluation that reached the dedup check, in order
    lastPush,     \* the last call of sendPushNotification and whether it succeeded
    crashed,      \* the service has panicked
    maxOffset,    \* history: the highest LastFilePosition that tickerStates[ticker]
                  \* has held since the service started
    day,          \* the day, counted from the start, of the log file that the
                  \* ticker's file events name
    conns,        \* cmd/server: the websocket connections, by id
    clients,      \* cmd/server: the connections registered in Server.clients
    srvState,     \* cmd/server: tickerStates[ticker], the id of a state or 0
    srvHeap,      \* cmd/server: the TickerState objects created so far, by id
    watcher,      \* cmd/server: the watcher goroutine, an event queued or in hand
    sweptAt,      \* cmd/server: the window of the last tick of the cleanup ticker
    events,       \* the registry: the write events queued for the watcher
    sending,      \* the registry: the SendUpdateForTicker call in progress
    userFile,     \* PUT /notifications: the user's notifications file
    putHandlers,  \* PUT /notifications: the request goroutines: where each one is
    putLog,       \* history: the requests answered so far, in order
    dbNow,        \* debounce: the time in milliseconds since the service started
    dbPending,    \* debounce: pendingFiles[path] for the log file of the ticker
    dbRoutines,   \* debounce: the goroutines started for the write events, in order
    dbHist,       \* history: the last write event and the reads started after it
    lkPc,         \* locks: where each goroutine of cmd/server is
    lkMu,         \* locks: the registry lock s.mu, a sync.RWMutex
    lkMutex,      \* locks: who holds statesMu and the mu of each TickerState
    lkClients,    \* locks: the connections in Server.clients
    lkStates,     \* locks: tickerStates[ticker] and the states created so far
    lkLocal,      \* locks: the local variables of the goroutines
    lkBad,        \* history: a lock was released by a goroutine not holding it
    keyIn,        \* dedup keys: two evaluations, each a bucket end and a window
    keyOut        \* dedup keys: the keys computed for them, or NoKeys

aggVars == << aggIn, aggPeriod, aggMode, aggFirst, aggPerm, inc, incNext >>
evalVars == << evSummary, evConfig, evResult >>
fsVars == << file, fileExists >>
readerVars == << rdOffset, rdDelivered, rdLast, rdPrev >>
notifyState == << reloadedAt, rules, pending, tickerStates, heap, handlers, evalLog,
                 lastPush, crashed, maxOffset, day >>
notifyVars == << clock, notifyState >>
fanVars == << events, sending >>
serverVars == << conns, clients, srvState, srvHeap, watcher, sweptAt, fanVars >>
putVars == << userFile, putHandlers, putLog >>
debounceVars == << dbNow, dbPending, dbRoutines, dbHist >>
lockVars == << lkPc, lkMu, lkMutex, lkClients, lkStates, lkLocal, lkBad >>
keyVars == << keyIn, keyOut >>
vars == << aggVars, evalVars, fsVars, readerVars, notifyVars, serverVars, putVars, debounceVars, lockVars, keyVars >>

\* what the actions of one component leave alone
AggOthers == << evalVars, fsVars, readerVars, notifyVars, serverVars, putVars, debounceVars, lockVars, keyVars >>
EvalOthers == << aggVars, fsVars, readerVars, notifyVars, serverVars, putVars, debounceVars, lockVars, keyVars >>
ReaderOthers == << aggVars, evalVars, notifyVars, serverVars, putVars, debounceVars, lockVars, keyVars >>
NotifyOthers == << aggVars, evalVars, readerVars, serverVars, putVars, debounceVars, lockVars, keyVars >>
ServerOthers == << aggVars, evalVars, readerVars, notifyState, fanVars, putVars, debounceVars, lockVars, keyVars >>
PutOthers == << aggVars, evalVars, fsVars, readerVars, notifyVars, serverVars,
               debounceVars, lockVars, keyVars >>
DebounceOthers == << aggVars, evalVars, fsVars, readerVars, notifyVars, serverVars,
                    putVars, lockVars, keyVars >>
LockOthers == << aggVars, evalVars, fsVars, readerVars, notifyVars, serverVars,
                putVars, debounceVars, keyVars >>
KeyOthers == << aggVars, evalVars, fsVars, readerVars, notifyVars, serverVars,
               putVars, debounceVars, lockVars >>

NoResult == [done |-> FALSE, order |-> << >>, out |-> << >>]
NoSummary == [set |-> FALSE, seed |-> 0, s |-> NewSummary(0, 0)]
NoConfig ==
    [CallPremiumThreshold |-> 0, PutPremiumThreshold |-> 0, RatioPremiumThreshold |-> 0,
     CallRatioThreshold |-> Rat(0), PutRatioThreshold |-> Rat(0)]

AggIdle ==
    /\ aggIn = << >>
    /\ aggPeriod = 1
    /\ aggMode = "off"
    /\ aggFirst = NoResult
    /\ aggPerm = NoResult
    /\ inc = NoSummary
    /\ incNext = 0

EvalIdle ==
    /\ evSummary = NewSummary(0, 0)
    /\ evConfig = NoConfig
    /\ evResult = "off"

NoRead == [valid |-> FALSE, file |-> << >>, from |-> 0, to |-> 0, aggregates |-> << >>,
           err |-> FALSE]

FsIdle ==
    /\ file = << >>
    /\ fileExists = FALSE

ReaderIdle ==
    /\ rdOffset = 0
    /\ rdDelivered = << >>
    /\ rdLast = NoRead
    /\ rdPrev = NoRead

\* no notifications file and no request
NoUserFile == [exists |-> FALSE, truncated |-> FALSE, notifications |-> << >>]

IdlePut == [pc |-> "idle"]

PutIdle ==
    /\ userFile = NoUserFile
    /\ putHandlers = << >>
    /\ putLog = << >>

NoPending == [exists |-> FALSE, lastEvent |-> 0]
NoWrite == [written |-> FALSE, lastWrite |-> 0, read |-> FALSE, dropped |-> FALSE]

DebounceIdle ==
    /\ dbNow = 0
    /\ dbPending = NoPending
    /\ dbRoutines = << >>
    /\ dbHist = NoWrite

\* the goroutines of cmd/server: the watcher, the sweep, Server.Run, the
\* handler and then the ping goroutine of each connection, and the initial
\* load of each TickerState
LockConns == 1 .. MaxConns
LockStates == 1 .. MaxStates
NoProc == << "none", 0 >>
WatcherProc == << "watcher", 0 >>
SweepProc == << "sweep", 0 >>
RunProc == << "run", 0 >>
ConnProc(c) == << "conn", c >>
LoadProc(sid) == << "load", sid >>
LockProcs ==
    {WatcherProc, SweepProc, RunProc}
        \cup { ConnProc(c) : c \in LockConns } \cup { LoadProc(sid) : sid \in LockStates }

\* a sync.RWMutex nobody holds or waits for
FreeRWMutex == [readers |-> {}, writer |-> NoProc, pending |-> {}]

LockIdle ==
    /\ lkPc = [p \in LockProcs |-> "idle"]
    /\ lkMu = FreeRWMutex
    /\ lkMutex = [statesMu |-> NoProc, state |-> [sid \in LockStates |-> NoProc]]
    /\ lkClients = {}
    /\ lkStates = [cur |-> 0, made |-> 0]
    /\ lkLocal = [sid |-> 0, todo |-> {}, target |-> 0, subscribed |-> FALSE, conn |-> 0]
    /\ lkBad = [unheld |-> FALSE, unguarded |-> FALSE]

NoEvaluations == [end1 |-> 0, now1 |-> 0, end2 |-> 0, now2 |-> 0]
NoKeys == [done |-> FALSE, inProgress1 |-> 0, inProgress2 |-> 0, completed2 |-> 0]

KeyIdle ==
    /\ keyIn = NoEvaluations
    /\ keyOut = NoKeys

NoPush == [made |-> FALSE, sid |-> 0, user |-> "", key |-> 0, ok |-> FALSE]

IdleHandler == [pc |-> "idle", sid |-> 0, users |-> << >>]

NotifyStateIdle ==
    /\ reloadedAt = 0
    /\ rules = {}
    /\ pending = FALSE
    /\ tickerStates = 0
    /\ heap = [i \in 1..MaxStates |-> FreeState]
    /\ handlers = [h \in 1..MaxHandlers |-> IdleHandler]
    /\ evalLog = << >>
    /\ lastPush = NoPush
    /\ crashed = FALSE
    /\ maxOffset = 0
    /\ day = 0

NotifyIdle == clock = 0 /\ NotifyStateIdle

\* the watcher goroutine: an event queued, its place, the state it holds, and
\* the period of each aggregate of its last run with the summaries sent for it
IdleWatcher == [queued |-> FALSE, pc |-> "idle", sid |-> 0, ticks |-> << >>]

\* no file event queued, and no record written to a file so far
NoEvents == [queued |-> {}, count |-> [name \in {} |-> 0]]

\* no SendUpdateForTicker call made yet
NoSend == [pc |-> "idle", ticker |-> << >>, todo |-> {}, target |-> 0, start |-> {},
           left |-> {}, wrote |-> {}, calls |-> 0]

FanIdle ==
    /\ events = NoEvents
    /\ sending = NoSend

ServerIdle ==
    /\ conns = << >>
    /\ clients = EmptyMap
    /\ srvState = 0
    /\ srvHeap = [i \in 1..MaxStates |-> FreeServerState]
    /\ watcher = IdleWatcher
    /\ sweptAt = 0
    /\ FanIdle

(***************************************************************************)
(* The aggregator applied to bounded tick lists.                           *)
(***************************************************************************)
Tick(symbol, volume, vw, start) ==
    [Symbol |-> symbol, Volume |-> volume, VWAP |-> vw, StartTimestamp |-> start]

\* a volume whose premium exhausts the significand
BigVolume == Pow2(MantBits)

AggTicks ==
    { Tick(SymCall, 1, 1, 0), Tick(SymCall, BigVolume, 1, 0), Tick(SymPut, 1, 2, 1),
      Tick(SymPut, 2, 1, 2), Tick(SymNoType, 1, 1, 0), Tick(SymCall, 1, 1, 4) }

AggPeriods == {1, 2}

Orderings(n) == { p \in [1..n -> 1..n] : \A i, j \in 1..n : p[i] = p[j] => i = j }

Permute(seq, p) == [i \in 1..Len(seq) |-> seq[p[i]]]

AggInit ==
    /\ aggIn = << >>
    /\ aggPeriod \in AggPeriods
    /\ aggMode = "input"
    /\ aggFirst = NoResult
    /\ aggPerm = NoResult
    /\ inc = NoSummary
    /\ incNext = 0

AggAddTick ==
    /\ aggMode = "input"
    /\ Len(aggIn) < MaxTicks
    /\ \E t \in AggTicks : aggIn' = Append(aggIn, t)
    /\ UNCHANGED << aggPeriod, aggMode, aggFirst, aggPerm, inc, incNext, AggOthers >>

\* AggregatePremiums(aggIn, aggPeriod)
Aggregate ==
    /\ aggMode \in {"input", "batch"}
    /\ ~aggFirst.done
    /\ aggMode' = "batch"
    /\ aggFirst' = [done |-> TRUE, order |-> aggIn,
                    out |-> AggregatePremiums(aggIn, aggPeriod)]
    /\ UNCHANGED << aggIn, aggPeriod, aggPerm, inc, incNext, AggOthers >>

\* AggregatePremiums on the same ticks in another order
AggregatePermuted ==
    /\ aggMode \in {"input", "batch"}
    /\ ~aggPerm.done
    /\ aggMode' = "batch"
    /\ \E p \in Orderings(Len(aggIn)) :
          aggPerm' = [done |-> TRUE, order |-> Permute(aggIn, p),
                      out |-> AggregatePremiums(Permute(aggIn, p), aggPeriod)]
    /\ UNCHANGED << aggIn, aggPeriod, aggFirst, inc, incNext, AggOthers >>

\* a caller's summary before the incremental updates: the latest summary of the
\* ticks read so far (cmd/server's initial load) or, with none, a new summary
\* for the period of the next tick (both callers)
IncStart ==
    /\ aggMode = "input"
    /\ aggIn # << >>
    /\ \E n \in 0..(Len(aggIn) - 1) :
          LET seed  == AggregatePremiums(SubSeq(aggIn, 1, n), aggPeriod)
              start == RoundDownToPeriod(aggIn[n + 1].StartTimestamp, aggPeriod)
          IN  /\ inc' = [set |-> TRUE, seed |-> n,
                         s |-> IF seed # << >> THEN seed[Len(seed)]
                               ELSE NewSummary(start, start + PeriodUnits(aggPeriod))]
              /\ incNext' = n + 1
    /\ aggMode' = "inc"
    /\ UNCHANGED << aggIn, aggPeriod, aggFirst, aggPerm, AggOthers >>

\* UpdatePeriodSummaryIncremental(summary, {agg}, period)
IncUpdate ==
    /\ aggMode = "inc"
    /\ incNext <= Len(aggIn)
    /\ inc' = [inc EXCEPT !.s = UpdatePeriodSummaryIncremental(@, << aggIn[incNext] >>, aggPeriod)]
    /\ incNext' = incNext + 1
    /\ UNCHANGED << aggIn, aggPeriod, aggMode, aggFirst, aggPerm, AggOthers >>

AggNext == AggAddTick \/ Aggregate \/ AggregatePermuted \/ IncStart \/ IncUpdate

InitAgg == AggInit /\ EvalIdle /\ FsIdle /\ ReaderIdle /\ NotifyIdle /\ ServerIdle /\ PutIdle /\ DebounceIdle /\ LockIdle /\ KeyIdle

SpecAgg == InitAgg /\ [][AggNext]_vars

(***************************************************************************)
(* EvaluateThresholds applied to bounded summaries and configs.            *)
(***************************************************************************)
EvalPremiums == {0, 5, 10, 20}

\* a summary as the aggregator leaves it, from its call and put premium
SummaryOf(call, put) ==
    [NewSummary(0, 2) EXCEPT
        !.CallPremium = call, !.PutPremium = put, !.TotalPremium = FAdd(call, put),
        !.CallPutRatio = IF put > 0 THEN FDiv(call, put)
                         ELSE IF call > 0 THEN Rat(InfiniteRatio) ELSE Rat(0)]

EvalRatios == { Rat(0), << 1, 2 >>, Rat(2) }

EvalConfigs ==
    [CallPremiumThreshold : {0, 10}, PutPremiumThreshold : {0, 10},
     RatioPremiumThreshold : {0, 15},
     CallRatioThreshold : EvalRatios, PutRatioThreshold : EvalRatios]

EvalInit ==
    /\ evSummary \in { SummaryOf(c, p) : c \in EvalPremiums, p \in EvalPremiums }
    /\ evConfig \in EvalConfigs
    /\ evResult = "none"

Evaluate ==
    /\ evResult = "none"
    /\ evResult' = IF EvaluateThresholds(evSummary, evConfig) THEN "true" ELSE "false"
    /\ UNCHANGED << evSummary, evConfig, EvalOthers >>

EvalNext == Evaluate

InitEval == EvalInit /\ AggIdle /\ FsIdle /\ ReaderIdle /\ NotifyIdle /\ ServerIdle /\ PutIdle /\ DebounceIdle /\ LockIdle /\ KeyIdle

SpecEval == InitEval /\ [][EvalNext]_vars

(***************************************************************************)
(* The incremental reader on a growing file: each read starts at the       *)
(* offset the read before it returned.                                     *)
(***************************************************************************)
TickA == Tick(SymCall, 1, 1, 0)
TickB == Tick(SymPut, 1, 2, 1)

EndsInNewline(f) == f = << >> \/ f[Len(f)] = Newline

\* the bytes the logger may append next: a record is a body and then its
\* newline, and the reader may see the file between the two
NextBytes(f) ==
    IF EndsInNewline(f) THEN { Body(TickA), Body(TickB), Malformed, Newline }
    ELSE { Newline }

ReaderInit ==
    /\ file = << >>
    /\ fileExists \in BOOLEAN
    /\ ReaderIdle

\* the logger appends one more byte (creating the file with its first write)
WriteByte ==
    /\ Len(file) < MaxFile
    /\ \E b \in NextBytes(file) : file' = Append(file, b)
    /\ fileExists' = TRUE
    /\ UNCHANGED << readerVars, ReaderOthers >>

\* aggregates, position, err := ReadLogFileIncremental(file, offset), the caller
\* keeping the position for its next read
ReadIncremental ==
    LET r == ReadLogFileIncremental(fileExists, file, rdOffset)
    IN  /\ rdOffset' = r.position
        /\ rdDelivered' = rdDelivered \o r.aggregates
        /\ rdPrev' = rdLast
        /\ rdLast' = [valid |-> TRUE, file |-> file, from |-> rdOffset, to |-> r.position,
                      aggregates |-> r.aggregates, err |-> r.err]
        /\ UNCHANGED << fsVars, ReaderOthers >>

ReaderNext == WriteByte \/ ReadIncremental

InitReader == ReaderInit /\ AggIdle /\ EvalIdle /\ NotifyIdle /\ ServerIdle /\ PutIdle /\ DebounceIdle /\ LockIdle /\ KeyIdle

SpecReader == InitReader /\ [][ReaderNext]_vars

(***************************************************************************)
(* cmd/notifications: the service on one ticker's log file.  Time is       *)
(* counted in 30-second windows; clock = k stands for an instant strictly  *)
(* inside window k, and a period is PeriodMinutes long.                    *)
(***************************************************************************)
\* the service starts in the second window of a period
ClockStart == 5

Threshold == RuleConfig.CallPremiumThreshold

\* the ticks the logger may append at time now: the day's first is a call one
\* short of the threshold or a call at the threshold, the later ones are calls
\* at the threshold
NotifyTicks(f, now) ==
    IF f = << >>
    THEN { Tick(SymCall, 1, Threshold - 1, now), Tick(SymCall, 1, Threshold, now) }
    ELSE { Tick(SymCall, 1, Threshold, now) }

\* the log file found at startup: the day's file has not been created
StartFiles == { [exists |-> FALSE, bytes |-> << >>] }

\* the least id of a TickerState not created yet, 0 when all are
FreeId(h) ==
    IF \E i \in DOMAIN h : ~h[i].alloc
    THEN CHOOSE i \in DOMAIN h : ~h[i].alloc /\ \A j \in DOMAIN h : ~h[j].alloc => i <= j
    ELSE 0

\* a TickerState that neither tickerStates nor a handler refers to any more
\* is garbage: its fields can no longer be read
Unreachable == [FreeState EXCEPT !.alloc = TRUE]

Collect(h, ts, hs) ==
    [i \in DOMAIN h |->
        IF h[i].alloc /\ i # ts /\ \A g \in DOMAIN hs : hs[g].sid # i
        THEN Unreachable ELSE h[i]]

\* the users with a rule, in the order of the directory listing
RECURSIVE UserNotifications(_)
UserNotifications(us) ==
    IF us = {} THEN << >>
    ELSE LET u == CHOOSE x \in us : TRUE
         IN  << u >> \o UserNotifications(us \ {u})

\* startup: the file position given to the state of a ticker with rules
StartupPosition(exists, f, now) ==
    IF ~exists THEN 0
    ELSE LET summaries == AnalyzeTickerAndDate(exists, f, PeriodMinutes)
         IN  IF summaries # << >>
             THEN IF \E i \in 1..Len(summaries) :
                        summaries[i].PeriodEnd + PeriodUnits(PeriodMinutes) <= now
                  THEN Len(f)
                  ELSE 0
             ELSE Len(f)

\* state.LastFilePosition of tickerStates[ticker], 0 while the map has no entry
StoredOffset(ts, h) == IF ts = 0 THEN 0 ELSE h[ts].LastFilePosition

\* the history of the stored offset after a step
HighestOffset(high, ts, h) ==
    IF StoredOffset(ts, h) > high THEN StoredOffset(ts, h) ELSE high

\* the service after its startup at time start on one of the log files
\* given, with room for n handler goroutines at a time
NotifyInitOn(n, start, files) ==
    /\ clock = start
    /\ reloadedAt = start
    /\ pending = FALSE
    /\ handlers = [h \in 1..n |-> IdleHandler]
    /\ evalLog = << >>
    /\ lastPush = NoPush
    /\ crashed = FALSE
    /\ \E f0 \in files :
          /\ file = f0.bytes
          /\ fileExists = f0.exists
          /\ rules \in SUBSET Users
          /\ IF HasNotifications(rules)
             THEN /\ tickerStates = 1
                  /\ heap = [i \in 1..MaxStates |->
                              IF i = 1
                              THEN [NewTickerState(start, FALSE) EXCEPT
                                      !.LastFilePosition =
                                          StartupPosition(f0.exists, f0.bytes, start)]
                              ELSE FreeState]
             ELSE /\ tickerStates = 0
                  /\ heap = [i \in 1..MaxStates |-> FreeState]
    /\ maxOffset = StoredOffset(tickerStates, heap)
    /\ day = 0

\* the service started before the day's log file exists
NotifyInit(n, start) == NotifyInitOn(n, start, StartFiles)

\* time passes into the next 30-second window
ClockTick ==
    /\ ~crashed
    /\ clock < MaxClock
    /\ clock' = clock + 1
    /\ UNCHANGED << reloadedAt, rules, pending, tickerStates, heap, handlers, evalLog,
                    lastPush, crashed, fsVars, maxOffset, day,
                    NotifyOthers >>

\* the logger writes one record; the watcher's event makes the file pending
WriteRecord ==
    /\ ~crashed
    /\ Len(file) + 2 <= MaxFile
    /\ \E t \in NotifyTicks(file, clock) : file' = file \o << Body(t), Newline >>
    /\ fileExists' = TRUE
    /\ pending' = TRUE
    /\ UNCHANGED << clock, reloadedAt, rules, tickerStates, heap, handlers, evalLog,
                    lastPush, crashed, maxOffset, day,
                    NotifyOthers >>

\* the API server saves a user's rule for the ticker
AddRule ==
    /\ ~crashed
    /\ \E u \in Users \ rules : rules' = rules \cup {u}
    /\ UNCHANGED << clock, reloadedAt, pending, tickerStates, heap, handlers, evalLog,
                    lastPush, crashed, fsVars, maxOffset, day,
                    NotifyOthers >>

\* the API server deletes a user's rule for the ticker
RemoveRule ==
    /\ ~crashed
    /\ \E u \in rules : rules' = rules \ {u}
    /\ UNCHANGED << clock, reloadedAt, pending, tickerStates, heap, handlers, evalLog,
                    lastPush, crashed, fsVars, maxOffset, day,
                    NotifyOthers >>

\* a tick of the 30-second reload ticker
Reload ==
    /\ ~crashed
    /\ clock > reloadedAt
    /\ reloadedAt' = clock
    /\ IF HasNotifications(rules)
       THEN IF tickerStates # 0
            THEN UNCHANGED << tickerStates, heap >>
            ELSE /\ FreeId(heap) # 0
                 /\ tickerStates' = FreeId(heap)
                 /\ heap' = [heap EXCEPT ![FreeId(heap)] = NewTickerState(clock, TRUE)]
       ELSE /\ tickerStates' = 0
            /\ heap' = Collect(heap, 0, handlers)
    /\ UNCHANGED << clock, rules, pending, handlers, evalLog, lastPush, crashed, fsVars,
                    NotifyOthers >>
    /\ maxOffset' = HighestOffset(maxOffset, tickerStates', heap')
    /\ UNCHANGED day

\* a handler goroutine wakes from its debounce sleep with the file still
\* pending: it loads the rules and gets or creates the ticker's state
HandlerStart(h) ==
    /\ ~crashed
    /\ pending
    /\ handlers[h].pc = "idle"
    /\ \A g \in 1..(h - 1) : handlers[g].pc # "idle"
    /\ pending' = FALSE
    /\ IF ~HasNotifications(rules)
       THEN UNCHANGED << tickerStates, heap, handlers >>
       ELSE IF tickerStates # 0
       THEN /\ handlers' = [handlers EXCEPT ![h] =
                  [pc |-> "state", sid |-> tickerStates, users |-> UserNotifications(rules)]]
            /\ UNCHANGED << tickerStates, heap >>
       ELSE /\ FreeId(heap) # 0
            /\ tickerStates' = FreeId(heap)
            /\ heap' = [heap EXCEPT ![FreeId(heap)] = NewTickerState(clock, FALSE)]
            /\ handlers' = [handlers EXCEPT ![h] =
                  [pc |-> "state", sid |-> FreeId(heap), users |-> UserNotifications(rules)]]
    /\ UNCHANGED << clock, reloadedAt, rules, evalLog, lastPush, crashed, fsVars,
                    NotifyOthers >>
    /\ maxOffset' = HighestOffset(maxOffset, tickerStates', heap')
    /\ UNCHANGED day

\* the periods of handler h's state after the loop over what its read returned
HandlerPeriods(h) ==
    AccumulatePeriods(heap[handlers[h].sid].CurrentPeriods,
                      ReadLogFileIncremental(fileExists, file,
                          heap[handlers[h].sid].LastFilePosition).aggregates, 1)

\* handler h's loop over the summaries when the range over CurrentPeriods
\* visits them in the order given: the ticker state, the log of evaluations
\* and the last push after it
HandlerEvaluation(h, order, pushOk) ==
    LET sid     == handlers[h].sid
        r       == ReadLogFileIncremental(fileExists, file, heap[sid].LastFilePosition)
        read    == [heap[sid] EXCEPT !.LastFilePosition = r.position, !.offsetDay = day]
        periods == HandlerPeriods(h)
        kept    == [read EXCEPT !.CurrentPeriods = CleanUpPeriods(periods, clock)]
        summaries == [i \in DOMAIN order |-> periods[order[i]]]
        ctx == [now |-> clock, sid |-> sid, users |-> handlers[h].users,
                pushOk |-> pushOk]
    IN  ProcessSummaries([state |-> kept, log |-> evalLog, push |-> lastPush],
                         summaries, 1, ctx)

\* state.mu is held by a handler goroutine
Locked(hs, sid) == \E g \in DOMAIN hs : hs[g].pc = "locked" /\ hs[g].sid = sid

\* state.mu.Lock() returns: no other handler holds the mutex of this state
HandlerLock(h) ==
    /\ ~crashed
    /\ handlers[h].pc = "state"
    /\ ~Locked(handlers, handlers[h].sid)
    /\ handlers' = [handlers EXCEPT ![h].pc = "locked"]
    /\ UNCHANGED << clock, reloadedAt, rules, pending, tickerStates, heap, evalLog,
                    lastPush, crashed, maxOffset, day, fsVars, NotifyOthers >>

\* the handler's work under state.mu, from the incremental read to the unlock
HandlerProcess(h) ==
    /\ ~crashed
    /\ handlers[h].pc = "locked"
    /\ handlers' = [handlers EXCEPT ![h] = IdleHandler]
    /\ LET sid   == handlers[h].sid
           state == heap[sid]
           r     == ReadLogFileIncremental(fileExists, file, state.LastFilePosition)
           read  == [state EXCEPT !.LastFilePosition = r.position, !.offsetDay = day]
       IN  IF r.err \/ r.aggregates = << >>
           THEN /\ heap' = Collect(heap, tickerStates, handlers')
                /\ UNCHANGED << evalLog, lastPush, crashed >>
           ELSE IF state.nilPeriods
           \* assignment to an entry in a nil map
           THEN /\ heap' = [heap EXCEPT ![sid] = read]
                /\ crashed' = TRUE
                /\ UNCHANGED << evalLog, lastPush >>
           ELSE \E order \in MapOrders(HandlerPeriods(h)), pushOk \in [Users -> BOOLEAN] :
                       LET done == HandlerEvaluation(h, order, pushOk)
                       IN  /\ heap' = Collect([heap EXCEPT ![sid] = done.state],
                                                   tickerStates, handlers')
                           /\ evalLog' = done.log
                           /\ lastPush' = done.push
                           /\ UNCHANGED crashed
    /\ UNCHANGED << clock, reloadedAt, rules, pending, tickerStates, fsVars, NotifyOthers >>
    /\ maxOffset' = HighestOffset(maxOffset, tickerStates', heap')
    /\ UNCHANGED day

Next ==
    \/ ClockTick
    \/ WriteRecord
    \/ AddRule
    \/ RemoveRule
    \/ Reload
    \/ \E h \in DOMAIN handlers : HandlerStart(h)
    \/ \E h \in DOMAIN handlers : HandlerLock(h)
    \/ \E h \in DOMAIN handlers : HandlerProcess(h)

\* the service with one handler goroutine at a time
Init ==
    NotifyInit(1, ClockStart) /\ AggIdle /\ EvalIdle /\ ReaderIdle /\ ServerIdle /\ PutIdle /\ DebounceIdle /\ LockIdle /\ KeyIdle

Spec == Init /\ [][Next]_vars

\* the service with handler goroutines running side by side, started one
\* window earlier
InitConcurrent ==
    NotifyInit(MaxHandlers, ClockStart - 1) /\ AggIdle /\ EvalIdle /\ ReaderIdle
    /\ ServerIdle /\ PutIdle /\ DebounceIdle /\ LockIdle /\ KeyIdle

SpecConcurrent == InitConcurrent /\ [][Next]_vars

\* the log file found when the service starts later in the day: records of a
\* period that ended long ago, the last of them complete or still without its
\* newline, or a record of such a period and one of the period in progress
LateStartFiles ==
    { [exists |-> TRUE, bytes |-> << Body(Tick(SymCall, 1, 1, 0)), Newline >>],
      [exists |-> TRUE, bytes |-> << Body(Tick(SymCall, 1, 1, 0)), Newline,
                                     Body(Tick(SymCall, 1, 1, 1)) >>],
      [exists |-> TRUE, bytes |-> << Body(Tick(SymCall, 1, 1, 0)), Newline,
                                     Body(Tick(SymCall, 1, 1, ClockStart)), Newline >>] }

\* the logger's write of a record's newline reaches the file
CompleteRecord ==
    /\ ~crashed
    /\ ~EndsInNewline(file)
    /\ file' = Append(file, Newline)
    /\ pending' = TRUE
    /\ UNCHANGED << clock, reloadedAt, rules, tickerStates, heap, handlers, evalLog,
                    lastPush, crashed, maxOffset, day, fileExists, NotifyOthers >>

\* a record reaches the file damaged: a complete line that is not valid JSON
WriteBadLine ==
    /\ ~crashed
    /\ EndsInNewline(file)
    /\ Len(file) + 2 <= MaxFile
    /\ file' = file \o << Malformed, Newline >>
    /\ pending' = TRUE
    /\ UNCHANGED << clock, reloadedAt, rules, tickerStates, heap, handlers, evalLog,
                    lastPush, crashed, maxOffset, day, fileExists, NotifyOthers >>

LateNext == Next \/ CompleteRecord \/ WriteBadLine

\* the service started later in the day, with one handler goroutine at a time
InitLate ==
    NotifyInitOn(1, ClockStart, LateStartFiles) /\ AggIdle /\ EvalIdle /\ ReaderIdle
    /\ ServerIdle /\ PutIdle /\ DebounceIdle /\ LockIdle /\ KeyIdle

SpecLateStart == InitLate /\ [][LateNext]_vars

\* the day ends: the logger's next write goes to the file of the next day,
\* which does not exist yet; the events of the old file have been handled
NextDay ==
    /\ ~crashed
    /\ day < MaxDays
    /\ ~pending
    /\ \A h \in DOMAIN handlers : handlers[h].pc = "idle"
    /\ day' = day + 1
    /\ file' = << >>
    /\ fileExists' = FALSE
    /\ UNCHANGED << clock, reloadedAt, rules, pending, tickerStates, heap, handlers,
                    evalLog, lastPush, crashed, maxOffset, NotifyOthers >>

RolloverNext == Next \/ NextDay

\* the service over the change of the day
SpecRollover == Init /\ [][RolloverNext]_vars

\* the service started two periods earlier, with one handler goroutine at a
\* time
InitEarly ==
    NotifyInit(1, ClockStart - 2 * PeriodUnits(PeriodMinutes)) /\ AggIdle /\ EvalIdle
    /\ ReaderIdle /\ ServerIdle /\ PutIdle /\ DebounceIdle /\ LockIdle /\ KeyIdle

\* the steps of the service while the users' rules stay as they are
EarlyNext ==
    \/ ClockTick
    \/ WriteRecord
    \/ \E h \in DOMAIN handlers : HandlerStart(h)
    \/ \E h \in DOMAIN handlers : HandlerLock(h)
    \/ \E h \in DOMAIN handlers : HandlerProcess(h)

SpecEarlyStart == InitEarly /\ [][EarlyNext]_vars

(***************************************************************************)
(* cmd/server: the websocket server on one ticker's log file, all the      *)
(* connections subscribing to that ticker for the current day.             *)
(***************************************************************************)
\* the tick the logger may append at time now
ServerTicks(now) == { Tick(SymCall, 1, 1, now) }

\* the ticker parameter of a request for the log file's ticker
ServerQueries == { << "a", "b" >>, << "A", "B" >> }

\* the log file found when the server starts: none, an empty one, or the
\* records of a period that ended long ago
ServerStartFiles ==
    { [exists |-> FALSE, bytes |-> << >>],
      [exists |-> TRUE, bytes |-> << >>],
      [exists |-> TRUE, bytes |-> << Body(Tick(SymCall, 1, 1, 0)), Newline,
                                     Body(Tick(SymCall, 1, 1, 1)), Newline >>] }

ServerInit ==
    /\ clock = ClockStart
    /\ sweptAt = ClockStart
    /\ \E f0 \in ServerStartFiles :
          /\ file = f0.bytes
          /\ fileExists = f0.exists
    /\ conns = [c \in 1..MaxConns |-> NewConn]
    /\ clients = EmptyMap
    /\ srvState = 0
    /\ srvHeap = [i \in 1..MaxStates |-> FreeServerState]
    /\ watcher = IdleWatcher
    /\ FanIdle
    /\ NotifyStateIdle

\* the logger writes one record; fsnotify queues a write event
LogRecord ==
    /\ Len(file) + 2 <= MaxFile
    /\ \E t \in ServerTicks(clock) : file' = file \o << Body(t), Newline >>
    /\ fileExists' = TRUE
    /\ watcher' = [watcher EXCEPT !.queued = TRUE]
    /\ UNCHANGED << clock, conns, clients, srvState, srvHeap, sweptAt, ServerOthers >>

\* /analyze: the connection is upgraded and registered with its ticker
Connect(c) ==
    /\ conns[c].phase = "new"
    /\ \E query \in ServerQueries :
          /\ conns' = [conns EXCEPT ![c].phase = "registered", ![c].query = query]
          /\ clients' = Register(clients, c, ToUpper(query))
    /\ UNCHANGED << clock, srvState, srvHeap, watcher, sweptAt, fsVars, ServerOthers >>

\* /analyze: the day's summaries are read for the history
LoadHistory(c) ==
    /\ conns[c].phase = "registered"
    /\ LET summaries == AnalyzeTickerAndDate(fileExists, file, PeriodMinutes)
       IN  conns' = [conns EXCEPT ![c].history = summaries,
                                  ![c].phase = IF summaries = << >> THEN "live"
                                               ELSE "history"]
    /\ UNCHANGED << clock, clients, srvState, srvHeap, watcher, sweptAt, fsVars,
                    ServerOthers >>

\* SendHistory: one more summary is written to the connection, or the write
\* fails and SendHistory returns
SendHistoryMessage(c) ==
    /\ conns[c].phase = "history"
    /\ LET n == conns[c].sent + 1
       IN  conns' = IF conns[c].broken
                    THEN [conns EXCEPT ![c].phase = "live"]
                    ELSE [conns EXCEPT
                            ![c].out = Append(@, Message("history", conns[c].history[n])),
                            ![c].sent = n,
                            ![c].phase = IF n = Len(conns[c].history) THEN "live"
                                         ELSE "history"]
    /\ UNCHANGED << clock, clients, srvState, srvHeap, watcher, sweptAt, fsVars,
                    ServerOthers >>

\* the peer goes away: writes to the connection fail from now on
Disconnect(c) ==
    /\ conns[c].phase # "new"
    /\ ~conns[c].broken
    /\ conns' = [conns EXCEPT ![c].broken = TRUE]
    /\ UNCHANGED << clock, clients, srvState, srvHeap, watcher, sweptAt, fsVars,
                    ServerOthers >>

\* the connection's ping fails and Run unregisters it
PingFails(c) ==
    /\ conns[c].phase = "live"
    /\ conns[c].broken
    /\ c \in DOMAIN clients
    /\ clients' = DeleteClient(clients, c)
    /\ UNCHANGED << clock, conns, srvState, srvHeap, watcher, sweptAt, fsVars,
                    ServerOthers >>

\* the watcher takes a write event: without subscribers it drops it, else it
\* gets or creates the ticker's state, spawning the state's initial load
WatcherStart ==
    /\ watcher.queued
    /\ watcher.pc = "idle"
    /\ IF ServerTicker \notin GetSubscribedTickers(clients)
       THEN /\ watcher' = [watcher EXCEPT !.queued = FALSE]
            /\ UNCHANGED << srvState, srvHeap >>
       ELSE IF srvState # 0
       THEN /\ watcher' = [watcher EXCEPT !.queued = FALSE, !.pc = "state",
                                           !.sid = srvState]
            /\ UNCHANGED << srvState, srvHeap >>
       ELSE /\ FreeId(srvHeap) # 0
            /\ srvState' = FreeId(srvHeap)
            /\ srvHeap' = [srvHeap EXCEPT ![FreeId(srvHeap)] = NewServerState]
            /\ watcher' = [watcher EXCEPT !.queued = FALSE, !.pc = "state",
                                           !.sid = FreeId(srvHeap)]
    /\ UNCHANGED << clock, conns, clients, sweptAt, fsVars, ServerOthers >>

\* the watcher's work under state.mu: the incremental read, the periods and
\* SendUpdateForTicker to every registered connection
WatcherProcess ==
    /\ watcher.pc = "state"
    /\ LET sid   == watcher.sid
           state == srvHeap[sid]
           r     == ReadLogFileIncremental(fileExists, file, state.LastFilePosition)
           read  == [state EXCEPT !.LastFilePosition = r.position]
           done  == WatchAggregates([state |-> read, updates |-> << >>, ticks |-> << >>],
                                    r.aggregates, 1,
                                    [now |-> clock,
                                     summaries |-> AnalyzeTickerAndDate(fileExists, file,
                                                                        PeriodMinutes)])
           Wrap(updates) == [i \in DOMAIN updates |-> Message("update", updates[i])]
           subscribed == { c \in DOMAIN clients : Subscribed(clients[c], ServerTicker) }
           failed == IF done.updates = << >> THEN {}
                     ELSE { c \in subscribed : conns[c].broken }
       IN  IF r.err \/ r.aggregates = << >>
           THEN /\ watcher' = [watcher EXCEPT !.pc = "idle", !.sid = 0]
                /\ UNCHANGED << srvHeap, conns, clients >>
           ELSE /\ watcher' = [watcher EXCEPT !.pc = "idle", !.sid = 0,
                                              !.ticks = done.ticks]
                /\ srvHeap' = [srvHeap EXCEPT ![sid] = done.state]
                /\ conns' = [c \in DOMAIN conns |->
                               IF c \in subscribed /\ ~conns[c].broken
                               THEN [conns[c] EXCEPT !.out = @ \o Wrap(done.updates)]
                               ELSE IF c \in failed
                               THEN [conns[c] EXCEPT !.closed = TRUE, !.failures = @ + 1]
                               ELSE conns[c]]
                /\ clients' = [c \in DOMAIN clients \ failed |-> clients[c]]
    /\ UNCHANGED << clock, srvState, sweptAt, fsVars, ServerOthers >>

\* the initial-load goroutine reads the day's summaries
InitialLoadRead(sid) ==
    /\ srvHeap[sid].alloc
    /\ srvHeap[sid].load = "spawned"
    /\ srvHeap' = [srvHeap EXCEPT
                     ![sid].load = "read",
                     ![sid].loaded = AnalyzeTickerAndDate(fileExists, file, PeriodMinutes)]
    /\ UNCHANGED << clock, conns, clients, srvState, watcher, sweptAt, fsVars,
                    ServerOthers >>

\* the initial-load goroutine sets the state's baseline under state.mu
InitialLoadApply(sid) ==
    /\ srvHeap[sid].alloc
    /\ srvHeap[sid].load = "read"
    /\ srvHeap' = [srvHeap EXCEPT
                     ![sid] = ApplyInitialLoad(srvHeap[sid], fileExists, file, clock)]
    /\ UNCHANGED << clock, conns, clients, srvState, watcher, sweptAt, fsVars,
                    ServerOthers >>

\* a tick of the 30-second cleanup ticker
Cleanup ==
    /\ clock > sweptAt
    /\ sweptAt' = clock
    /\ srvState' = IF ServerTicker \notin GetSubscribedTickers(clients) THEN 0
                   ELSE srvState
    /\ UNCHANGED << clock, conns, clients, srvHeap, watcher, fsVars, ServerOthers >>

\* time passes into the next 30-second window
ServerClockTick ==
    /\ clock < MaxClock
    /\ clock' = clock + 1
    /\ UNCHANGED << serverVars, fsVars, ServerOthers >>

ServerNext ==
    \/ ServerClockTick
    \/ LogRecord
    \/ \E c \in DOMAIN conns : Connect(c)
    \/ \E c \in DOMAIN conns : LoadHistory(c)
    \/ \E c \in DOMAIN conns : SendHistoryMessage(c)
    \/ \E c \in DOMAIN conns : Disconnect(c)
    \/ \E c \in DOMAIN conns : PingFails(c)
    \/ WatcherStart
    \/ WatcherProcess
    \/ \E sid \in DOMAIN srvHeap : InitialLoadRead(sid)
    \/ \E sid \in DOMAIN srvHeap : InitialLoadApply(sid)
    \/ Cleanup

InitServer == ServerInit /\ AggIdle /\ EvalIdle /\ ReaderIdle /\ PutIdle /\ DebounceIdle /\ LockIdle /\ KeyIdle

SpecServer == InitServer /\ [][ServerNext]_vars

\* the ticks the logger may append at time now when ticks can come late: a
\* tick of the period now is in, a larger one, and a tick of the period before
LateTicks(now) ==
    { Tick(SymCall, 1, 1, now), Tick(SymCall, 2, 1, now),
      Tick(SymCall, 1, 1, now - PeriodUnits(PeriodMinutes)) }

\* the server with one connection that has been registered and has been sent
\* the history of a day without log file
LiveInit ==
    /\ clock = ClockStart
    /\ sweptAt = ClockStart
    /\ file = << >>
    /\ fileExists = FALSE
    /\ conns = [c \in 1..MaxConns |->
                  [NewConn EXCEPT !.phase = "live", !.query = ServerTicker]]
    /\ clients = [c \in 1..MaxConns |-> [Ticker |-> ServerTicker]]
    /\ srvState = 0
    /\ srvHeap = [i \in 1..MaxStates |-> FreeServerState]
    /\ watcher = IdleWatcher
    /\ FanIdle
    /\ NotifyStateIdle

\* the logger writes one record, of the period now is in or a late one
LogLateRecord ==
    /\ Len(file) + 2 <= MaxFile
    /\ \E t \in LateTicks(clock) : file' = file \o << Body(t), Newline >>
    /\ fileExists' = TRUE
    /\ watcher' = [watcher EXCEPT !.queued = TRUE]
    /\ UNCHANGED << clock, conns, clients, srvState, srvHeap, sweptAt, ServerOthers >>

LiveNext ==
    \/ ServerClockTick
    \/ LogLateRecord
    \/ WatcherStart
    \/ WatcherProcess
    \/ \E sid \in DOMAIN srvHeap : InitialLoadRead(sid)
    \/ \E sid \in DOMAIN srvHeap : InitialLoadApply(sid)

InitLive == LiveInit /\ AggIdle /\ EvalIdle /\ ReaderIdle /\ PutIdle /\ DebounceIdle /\ LockIdle /\ KeyIdle

\* the server's watcher with subscribers throughout and ticks that come late
SpecLiveUpdates == InitLive /\ [][LiveNext]_vars

(***************************************************************************)
(* /analyze's history on its own: the summaries that AggregatePremiums      *)
(* returned for a bounded tick list are handed to SendHistory.             *)
(***************************************************************************)
HistoryInit ==
    /\ AggInit
    /\ conns = [c \in 1..MaxConns |-> NewConn]
    /\ clients = EmptyMap
    /\ srvState = 0
    /\ srvHeap = [i \in 1..MaxStates |-> FreeServerState]
    /\ watcher = IdleWatcher
    /\ sweptAt = 0
    /\ FanIdle

\* the current date in the Pacific time zone, as /analyze formats it
Today == "2026-11-05"

\* the requests made of /analyze: with a ticker or without, and with no date,
\* the current date or a date that time.Parse("2006-01-02", ...) rejects
HistoryRequests ==
    { [ticker |-> t, date |-> d] : t \in { << >>, << "a", "b" >> },
                                   d \in { "", Today, "11/05/2026" } }

\* time.Parse("2006-01-02", dateStr) returns no error
ValidDate(dateStr) == dateStr = Today

\* the date whose log file /analyze reads for the history
HistoryDate(dateStr) ==
    IF dateStr = "" THEN Today
    ELSE IF ~ValidDate(dateStr) THEN Today
    ELSE dateStr

\* /analyze: a request without ticker is answered 400 before the upgrade; else
\* the connection is registered and wsServer.SendHistory is called with the
\* summaries of the request's date
ServeHistory(c) ==
    /\ conns[c].phase = "new"
    /\ aggFirst.done
    /\ \E request \in HistoryRequests :
          IF request.ticker = << >>
          THEN /\ conns' = [conns EXCEPT ![c].phase = "rejected",
                                         ![c].date = request.date]
               /\ UNCHANGED clients
          ELSE LET summaries == IF HistoryDate(request.date) = Today THEN aggFirst.out
                                ELSE << >>
               IN  /\ conns' = [conns EXCEPT ![c].history = summaries,
                                             ![c].query = request.ticker,
                                             ![c].date = request.date,
                                             ![c].phase = IF summaries = << >> THEN "live"
                                                          ELSE "history"]
                   /\ clients' = Register(clients, c, ToUpper(request.ticker))
    /\ UNCHANGED << clock, srvState, srvHeap, watcher, sweptAt, fsVars, ServerOthers >>

HistoryNext ==
    \/ AggAddTick
    \/ Aggregate
    \/ \E c \in DOMAIN conns : ServeHistory(c)
    \/ \E c \in DOMAIN conns : SendHistoryMessage(c)
    \/ \E c \in DOMAIN conns : Disconnect(c)

InitHistory == HistoryInit /\ EvalIdle /\ FsIdle /\ ReaderIdle /\ NotifyIdle /\ PutIdle /\ DebounceIdle /\ LockIdle /\ KeyIdle

SpecHistory == InitHistory /\ [][HistoryNext]_vars

(***************************************************************************)
(* internal/server: the registry of connections, Run and                   *)
(* SendUpdateForTicker, with the connections of several tickers.  The       *)
(* watcher calls SendUpdateForTicker once for a write event of a           *)
(* subscribed ticker; the log files have no history to send.               *)
(***************************************************************************)
\* the ticker parameters of the requests, by connection
Requests == << << "a", "b" >>, << "A", "B" >>, << "x" >> >>

\* the tickers of the log files, as their names spell them
FileTickers == { << "a", "b" >>, << "x" >> }

\* s.mu is held by nobody: SendUpdateForTicker holds the read lock while it
\* ranges over s.clients, a blocked write included
RegistryUnlocked == sending.pc \notin {"range", "blocked"}

\* a range over s.clients is suspended, the read lock released
RangeSuspended == sending.pc \in {"failed", "relock"}

FanInit ==
    /\ clock = 0
    /\ file = << >>
    /\ fileExists = FALSE
    /\ conns = [c \in DOMAIN Requests |-> NewConn]
    /\ clients = EmptyMap
    /\ srvState = 0
    /\ srvHeap = [i \in 1..MaxStates |-> FreeServerState]
    /\ watcher = IdleWatcher
    /\ sweptAt = 0
    /\ events = [queued |-> {}, count |-> [name \in FileTickers |-> 0]]
    /\ sending = NoSend
    /\ NotifyStateIdle

FanOthers == << aggVars, evalVars, fsVars, readerVars, notifyVars, srvState, srvHeap,
                watcher, sweptAt, putVars, debounceVars, lockVars, keyVars >>

\* /analyze: the connection is upgraded and registered under s.mu with the
\* upper-cased ticker.  An entry added while a range over s.clients is
\* suspended may or may not be produced by the range.
FanConnect(c) ==
    /\ conns[c].phase = "new"
    /\ RegistryUnlocked
    /\ conns' = [conns EXCEPT ![c].phase = "live", ![c].query = Requests[c]]
    /\ clients' = Register(clients, c, ToUpper(Requests[c]))
    /\ IF RangeSuspended
       THEN \E seen \in BOOLEAN :
               sending' = [sending EXCEPT !.todo = IF seen THEN @ \cup {c} ELSE @]
       ELSE UNCHANGED sending
    /\ UNCHANGED << events, FanOthers >>

\* the peer goes away: writes to the connection fail from now on
FanDisconnect(c) ==
    /\ conns[c].phase # "new"
    /\ ~conns[c].broken
    /\ conns' = [conns EXCEPT ![c].broken = TRUE]
    /\ UNCHANGED << clients, fanVars, FanOthers >>

\* the peer stops reading: once its buffers are full a write to the
\* connection does not return (no write deadline is set)
FanStall(c) ==
    /\ conns[c].phase # "new"
    /\ ~conns[c].broken
    /\ ~conns[c].stalled
    /\ conns' = [conns EXCEPT ![c].stalled = TRUE]
    /\ UNCHANGED << clients, fanVars, FanOthers >>

\* the logger writes a record to a ticker's file; fsnotify queues the event
FileEvent(name) ==
    /\ events.count[name] < MaxEvents
    /\ events' = [queued |-> events.queued \cup {name},
                  count  |-> [events.count EXCEPT ![name] = @ + 1]]
    /\ UNCHANGED << conns, clients, sending, FanOthers >>

\* the watcher takes a write event: it drops the event of a ticker without
\* subscribers, else it calls SendUpdateForTicker, which takes the read lock
WatcherTake(name) ==
    /\ name \in events.queued
    /\ sending.pc \in {"idle", "done"}
    /\ events' = [events EXCEPT !.queued = @ \ {name}]
    /\ LET ticker == ToUpper(name)
       IN  IF ticker \notin GetSubscribedTickers(clients)
           THEN UNCHANGED sending
           ELSE sending' = [pc |-> "range", ticker |-> ticker, todo |-> DOMAIN clients,
                            target |-> 0, start |-> DOMAIN clients, left |-> {},
                            wrote |-> {}, calls |-> sending.calls + 1]
    /\ UNCHANGED << conns, clients, FanOthers >>

\* what a write error does in SendUpdateForTicker: conn.Close() and the read
\* lock released, the connection still to be deleted
WriteFailed(c) ==
    /\ conns' = [conns EXCEPT ![c].closed = TRUE, ![c].failures = @ + 1]
    /\ sending' = [sending EXCEPT !.pc = "failed", !.target = c, !.todo = @ \ {c}]

\* SendUpdateForTicker: the range produces one more connection
SendVisit(c) ==
    /\ sending.pc = "range"
    /\ c \in sending.todo
    /\ IF ~Subscribed(clients[c], sending.ticker)
       THEN /\ sending' = [sending EXCEPT !.todo = @ \ {c}]
            /\ UNCHANGED conns
       ELSE IF conns[c].broken
       THEN WriteFailed(c)
       ELSE IF conns[c].stalled
       THEN /\ sending' = [sending EXCEPT !.pc = "blocked", !.target = c, !.todo = @ \ {c}]
            /\ UNCHANGED conns
       ELSE /\ conns' = [conns EXCEPT ![c].out =
                           Append(@, Message("update",
                                             NewSummary(sending.calls, sending.calls)))]
            /\ sending' = [sending EXCEPT !.todo = @ \ {c}, !.wrote = @ \cup {c}]
    /\ UNCHANGED << clients, events, FanOthers >>

\* a blocked write returns with an error once the peer is gone
SendUnblock ==
    /\ sending.pc = "blocked"
    /\ conns[sending.target].broken
    /\ WriteFailed(sending.target)
    /\ UNCHANGED << clients, events, FanOthers >>

\* SendUpdateForTicker after a write error: the connection is deleted under
\* the write lock
SendDelete ==
    /\ sending.pc = "failed"
    /\ clients' = DeleteClient(clients, sending.target)
    /\ sending' = [sending EXCEPT !.pc = "relock", !.left = @ \cup {sending.target}]
    /\ UNCHANGED << conns, events, FanOthers >>

\* SendUpdateForTicker takes the read lock again and the range goes on
SendRelock ==
    /\ sending.pc = "relock"
    /\ sending' = [sending EXCEPT !.pc = "range"]
    /\ UNCHANGED << conns, clients, events, FanOthers >>

\* the range is over: SendUpdateForTicker returns
SendEnd ==
    /\ sending.pc = "range"
    /\ sending.todo = {}
    /\ sending' = [sending EXCEPT !.pc = "done"]
    /\ UNCHANGED << conns, clients, events, FanOthers >>

\* the connection's ping write fails: its goroutine returns and its deferred
\* Unregister offers the connection on the unregister channel
FanPingFails(c) ==
    /\ conns[c].phase = "live"
    /\ conns[c].broken
    /\ conns[c].ping = "ok"
    /\ conns' = [conns EXCEPT ![c].ping = "failed"]
    /\ UNCHANGED << clients, fanVars, FanOthers >>

\* Run takes the connection from the unregister channel and, under the write
\* lock, deletes it if it is registered and closes it
RunUnregister(c) ==
    /\ conns[c].ping = "failed"
    /\ RegistryUnlocked
    /\ IF Registered(clients, c)
       THEN /\ clients' = DeleteClient(clients, c)
            /\ conns' = [conns EXCEPT ![c].ping = "done", ![c].closed = TRUE]
       ELSE /\ clients' = clients
            /\ conns' = [conns EXCEPT ![c].ping = "absent"]
    /\ sending' = IF RangeSuspended
                  THEN [sending EXCEPT !.todo = @ \ {c}, !.left = @ \cup {c}]
                  ELSE sending
    /\ UNCHANGED << events, FanOthers >>

\* the steps of the watcher goroutine
WatcherStep ==
    \/ \E name \in FileTickers : WatcherTake(name)
    \/ \E c \in DOMAIN conns : SendVisit(c)
    \/ SendDelete
    \/ SendRelock
    \/ SendEnd

\* the steps of the Run goroutine
RunStep == \E c \in DOMAIN conns : RunUnregister(c)

FanNext ==
    \/ \E c \in DOMAIN conns : FanConnect(c)
    \/ \E c \in DOMAIN conns : FanDisconnect(c)
    \/ \E c \in DOMAIN conns : FanPingFails(c)
    \/ \E name \in FileTickers : FileEvent(name)
    \/ WatcherStep
    \/ RunStep

InitFanout == FanInit /\ AggIdle /\ EvalIdle /\ ReaderIdle /\ PutIdle /\ DebounceIdle /\ LockIdle /\ KeyIdle

\* the registry with peers that read what is written to them or go away
SpecFanout == InitFanout /\ [][FanNext]_vars

\* the registry with peers that may also stop reading
StallNext ==
    \/ FanNext
    \/ \E c \in DOMAIN conns : FanStall(c)
    \/ SendUnblock

\* the goroutines of the watcher and of Run are scheduled whenever they can
\* take a step
SpecFanoutFair ==
    /\ InitFanout
    /\ [][StallNext]_vars
    /\ WF_vars(WatcherStep \/ SendUnblock)
    /\ WF_vars(RunStep)

(***************************************************************************)
(* cmd/server: the writes to one connection, each with its call and its    *)
(* return: SendHistory in the /analyze handler, SendUpdateForTicker in the *)
(* watcher goroutine and the ping of the connection's own goroutine.       *)
(***************************************************************************)
\* SendHistory calls conn.WriteJSON for the next summary of the history
WriteHistoryBegin(c) ==
    /\ conns[c].phase = "history"
    /\ "history" \notin conns[c].writing
    /\ conns' = [conns EXCEPT ![c].writing = @ \cup {"history"}]
    /\ UNCHANGED << clock, clients, srvState, srvHeap, watcher, sweptAt, fsVars,
                    ServerOthers >>

\* the write returns; after the last summary SendHistory returns and the
\* handler starts the ping goroutine
WriteHistoryEnd(c) ==
    /\ "history" \in conns[c].writing
    /\ LET n == conns[c].sent + 1
       IN  conns' = [conns EXCEPT
                       ![c].writing = @ \ {"history"},
                       ![c].out = Append(@, Message("history", conns[c].history[n])),
                       ![c].sent = n,
                       ![c].phase = IF n = Len(conns[c].history) THEN "live"
                                    ELSE "history"]
    /\ UNCHANGED << clock, clients, srvState, srvHeap, watcher, sweptAt, fsVars,
                    ServerOthers >>

\* the watcher has taken a write event and SendUpdateForTicker, ranging over
\* s.clients, calls conn.WriteJSON on a connection subscribed to the ticker
WriteUpdateBegin(c) ==
    /\ watcher.queued
    /\ watcher.pc = "idle"
    /\ c \in DOMAIN clients
    /\ Subscribed(clients[c], ServerTicker)
    /\ watcher' = [watcher EXCEPT !.queued = FALSE, !.pc = "write"]
    /\ conns' = [conns EXCEPT ![c].writing = @ \cup {"update"}]
    /\ UNCHANGED << clock, clients, srvState, srvHeap, sweptAt, fsVars, ServerOthers >>

\* the write returns and SendUpdateForTicker with it
WriteUpdateEnd(c) ==
    /\ "update" \in conns[c].writing
    /\ watcher' = [watcher EXCEPT !.pc = "idle"]
    /\ conns' = [conns EXCEPT
                    ![c].writing = @ \ {"update"},
                    ![c].out = Append(@, Message("update",
                                   LET summaries == AnalyzeTickerAndDate(fileExists, file,
                                                                         PeriodMinutes)
                                   IN  summaries[Len(summaries)]))]
    /\ UNCHANGED << clock, clients, srvState, srvHeap, sweptAt, fsVars, ServerOthers >>

\* the ping goroutine's ticker fires and it calls conn.WriteMessage
WritePingBegin(c) ==
    /\ conns[c].phase = "live"
    /\ "ping" \notin conns[c].writing
    /\ conns' = [conns EXCEPT ![c].writing = @ \cup {"ping"}]
    /\ UNCHANGED << clock, clients, srvState, srvHeap, watcher, sweptAt, fsVars,
                    ServerOthers >>

\* the ping write returns; a ping is a control frame, not a message
WritePingEnd(c) ==
    /\ "ping" \in conns[c].writing
    /\ conns' = [conns EXCEPT ![c].writing = @ \ {"ping"}]
    /\ UNCHANGED << clock, clients, srvState, srvHeap, watcher, sweptAt, fsVars,
                    ServerOthers >>

WritersNext ==
    \/ LogRecord
    \/ \E c \in DOMAIN conns : Connect(c)
    \/ \E c \in DOMAIN conns : LoadHistory(c)
    \/ \E c \in DOMAIN conns : WriteHistoryBegin(c)
    \/ \E c \in DOMAIN conns : WriteHistoryEnd(c)
    \/ \E c \in DOMAIN conns : WriteUpdateBegin(c)
    \/ \E c \in DOMAIN conns : WriteUpdateEnd(c)
    \/ \E c \in DOMAIN conns : WritePingBegin(c)
    \/ \E c \in DOMAIN conns : WritePingEnd(c)

\* the goroutines that write to a connection, with writes that take time
SpecWriters == InitServer /\ [][WritersNext]_vars

(***************************************************************************)
(* PUT /notifications (cmd/server): each request runs on a goroutine of    *)
(* its own, loads the user's notifications file, sets the rule of the      *)
(* body's ticker and writes the file back.                                 *)
(***************************************************************************)
\* the rules a request body can hold: a ticker, or none, and two thresholds of
\* which the body gives one and leaves the other at its zero value
PutBodies ==
    { [Ticker |-> t, CallPremiumThreshold |-> th[1], PutPremiumThreshold |-> th[2]] :
        t \in { << >>, << "a", "b" >>, << "x" >> },
        th \in { << MaxPuts, 0 >>, << 0, MaxPuts >> } }

\* userConfig.Notifications[newConfig.Ticker] = newConfig
SetNotification(notifications, config) ==
    [t \in DOMAIN notifications \cup { config.Ticker } |->
        IF t = config.Ticker THEN config ELSE notifications[t]]

\* LoadUserNotifications: an empty configuration if there is no file, an error
\* if the file does not parse, else the file's rules
LoadUserNotifications(f) ==
    IF ~f.exists THEN [err |-> FALSE, notifications |-> << >>]
    ELSE IF f.truncated THEN [err |-> TRUE, notifications |-> << >>]
    ELSE [err |-> FALSE, notifications |-> f.notifications]

\* the answer to a request, with the number of requests answered before it
\* started
PutAnswer(h, status) ==
    [status |-> status, body |-> putHandlers[h].body, start |-> putHandlers[h].start]

\* a request arrives: the body is decoded, a body without ticker is answered
\* 400, and the ticker is upper-cased
PutStart(h) ==
    /\ putHandlers[h].pc = "idle"
    /\ Len(putLog) + Cardinality({ g \in DOMAIN putHandlers : putHandlers[g].pc # "idle" })
         < MaxPuts
    /\ \E newConfig \in PutBodies :
          IF newConfig.Ticker = << >>
          THEN /\ putLog' = Append(putLog,
                       [status |-> 400, body |-> newConfig, start |-> Len(putLog)])
               /\ UNCHANGED putHandlers
          ELSE /\ putHandlers' = [putHandlers EXCEPT ![h] =
                       [pc |-> "load",
                        body |-> [newConfig EXCEPT !.Ticker = ToUpper(newConfig.Ticker)],
                        start |-> Len(putLog)]]
               /\ UNCHANGED putLog
    /\ UNCHANGED << userFile, PutOthers >>

\* notifications.LoadUserNotifications(sub, dir)
PutLoad(h) ==
    /\ putHandlers[h].pc = "load"
    /\ LET userConfig == LoadUserNotifications(userFile)
       IN  IF userConfig.err
           THEN /\ putLog' = Append(putLog, PutAnswer(h, 500))
                /\ putHandlers' = [putHandlers EXCEPT ![h] = IdlePut]
           ELSE /\ putHandlers' = [putHandlers EXCEPT ![h] =
                        [pc |-> "save", body |-> putHandlers[h].body,
                         start |-> putHandlers[h].start,
                         notifications |->
                             SetNotification(userConfig.notifications,
                                             putHandlers[h].body)]]
                /\ UNCHANGED putLog
    /\ UNCHANGED << userFile, PutOthers >>

\* SaveUserNotifications, first half: os.WriteFile opens the file, creating
\* or truncating it
PutTruncate(h) ==
    /\ putHandlers[h].pc = "save"
    /\ userFile' = [exists |-> TRUE, truncated |-> TRUE, notifications |-> << >>]
    /\ putHandlers' = [putHandlers EXCEPT ![h].pc = "write"]
    /\ UNCHANGED << putLog, PutOthers >>

\* SaveUserNotifications, second half: the marshalled configuration is
\* written, and the request is answered with success
PutWrite(h) ==
    /\ putHandlers[h].pc = "write"
    /\ userFile' = [exists |-> TRUE, truncated |-> FALSE,
                    notifications |-> putHandlers[h].notifications]
    /\ putLog' = Append(putLog, PutAnswer(h, 200))
    /\ putHandlers' = [putHandlers EXCEPT ![h] = IdlePut]
    /\ UNCHANGED PutOthers

PutInit ==
    /\ userFile = NoUserFile
    /\ putHandlers = [h \in 1..MaxHandlers |-> IdlePut]
    /\ putLog = << >>

PutNext ==
    \/ \E h \in DOMAIN putHandlers : PutStart(h)
    \/ \E h \in DOMAIN putHandlers : PutLoad(h)
    \/ \E h \in DOMAIN putHandlers : PutTruncate(h)
    \/ \E h \in DOMAIN putHandlers : PutWrite(h)

InitPut ==
    /\ PutInit /\ AggIdle /\ EvalIdle /\ FsIdle /\ ReaderIdle /\ NotifyIdle /\ ServerIdle
    /\ DebounceIdle /\ LockIdle /\ KeyIdle

\* one user's PUT /notifications requests, served side by side
SpecPut == InitPut /\ [][PutNext]_vars

(***************************************************************************)
(* cmd/notifications: the debounce of the write events of one log file.    *)
(* Time is in milliseconds here and advances in steps of half the sleep.   *)
(* Every write event stamps pendingFiles[path] and starts a goroutine that *)
(* sleeps, looks at the entry under pendingMu and either returns or goes   *)
(* on to the read. time.Sleep returns after at least its duration: how     *)
(* much later the goroutine runs is up to the scheduler. The ticker has    *)
(* rules on disk throughout.                                                *)
(***************************************************************************)
SleepMillis == 500
StaleMillis == 1000
DebounceStep == SleepMillis \div 2

\* the goroutine started for the write event seen at time now
NewRoutine(now) == [pc |-> "sleep", since |-> now]

\* fsnotify delivers a write event for the file: the entry of the file is
\* created with lastEvent = now, or its lastEvent is set to now, and a
\* goroutine is started for the event
WriteEvent ==
    /\ Len(dbRoutines) < MaxBurst
    /\ dbPending' = [exists |-> TRUE, lastEvent |-> dbNow]
    /\ dbRoutines' = Append(dbRoutines, NewRoutine(dbNow))
    /\ dbHist' = [written |-> TRUE, lastWrite |-> dbNow, read |-> FALSE,
                  dropped |-> dbHist.dropped]
    /\ UNCHANGED << dbNow, DebounceOthers >>

\* time.Since(pending.lastEvent) > 1*time.Second
TooOld(p, now) == now - p.lastEvent > StaleMillis

\* what the goroutine does with the entry once it holds pendingMu: "gone" when
\* there is no entry, "old" when the entry is too old, "read" otherwise
Decide(p, now) ==
    IF ~p.exists THEN "gone"
    ELSE IF TooOld(p, now) THEN "old"
    ELSE "read"

\* the sleep of goroutine g is over and it takes pendingMu: without an entry
\* it returns; an entry that is too old is deleted and it returns; otherwise
\* the entry is deleted and the goroutine goes on to the handler
Wake(g) ==
    /\ dbRoutines[g].pc = "sleep"
    /\ dbNow >= dbRoutines[g].since + SleepMillis
    /\ LET d == Decide(dbPending, dbNow)
       IN /\ dbPending' = IF d = "gone" THEN dbPending ELSE NoPending
          /\ dbRoutines' = [dbRoutines EXCEPT ![g].pc =
                               IF d = "read" THEN "handler" ELSE "done"]
          /\ dbHist' = [dbHist EXCEPT !.dropped = @ \/ d = "old"]
    /\ UNCHANGED << dbNow, DebounceOthers >>

\* goroutine g has loaded the rules, found the state of the ticker, locked
\* it and calls ReadLogFileIncremental
StartRead(g) ==
    /\ dbRoutines[g].pc = "handler"
    /\ dbRoutines' = [dbRoutines EXCEPT ![g].pc = "done"]
    /\ dbHist' = [dbHist EXCEPT !.read = TRUE]
    /\ UNCHANGED << dbNow, dbPending, DebounceOthers >>

\* time passes
Elapse ==
    /\ dbNow < MaxSteps * DebounceStep
    /\ dbNow' = dbNow + DebounceStep
    /\ UNCHANGED << dbPending, dbRoutines, dbHist, DebounceOthers >>

DebounceNext ==
    \/ WriteEvent
    \/ Elapse
    \/ \E g \in DOMAIN dbRoutines : Wake(g)
    \/ \E g \in DOMAIN dbRoutines : StartRead(g)

InitDebounce ==
    /\ DebounceIdle /\ LockIdle /\ KeyIdle /\ AggIdle /\ EvalIdle /\ FsIdle /\ ReaderIdle /\ NotifyIdle
    /\ ServerIdle /\ PutIdle

\* the write events of one log file and the goroutines started for them
SpecDebounce == InitDebounce /\ [][DebounceNext]_vars

(***************************************************************************)
(* cmd/notifications: the dedup keys of two evaluations.  A key is an      *)
(* int64 that adds milliseconds (the bucket end) and seconds (the window): *)
(* with the bucket end E and the window n counted in 30-second units it is *)
(* 30000 * E + 30 * n.  The windows are taken around a time that is a      *)
(* whole number of bucket widths when read in milliseconds instead of      *)
(* seconds, as happens every 1000 bucket widths.                           *)
(***************************************************************************)
KeyOrigin == (MillisPerUnit \div SecondsPerUnit) * PeriodUnits(PeriodMinutes)
KeyWindows == (KeyOrigin - 1) .. (KeyOrigin + MaxWindows)

\* the end of the bucket that is in progress in window now
CurrentEnd(now) == (now \div PeriodUnits(PeriodMinutes) + 1) * PeriodUnits(PeriodMinutes)

\* two evaluations of in-progress buckets, each in a window of its own
KeyInit ==
    /\ \E n1, n2 \in KeyWindows :
          keyIn = [end1 |-> CurrentEnd(n1), now1 |-> n1,
                   end2 |-> CurrentEnd(n2), now2 |-> n2]
    /\ keyOut = NoKeys

\* the handler computes notificationKey: for each bucket while it is in
\* progress, and for the second bucket once it is complete
ComputeKeys ==
    /\ ~keyOut.done
    /\ keyOut' = [done |-> TRUE,
                  inProgress1 |-> InProgressKey(keyIn.end1, keyIn.now1),
                  inProgress2 |-> InProgressKey(keyIn.end2, keyIn.now2),
                  completed2 |-> CompletedKey(keyIn.end2)]
    /\ UNCHANGED << keyIn, KeyOthers >>

KeyNext == ComputeKeys

InitKeys ==
    /\ KeyInit /\ AggIdle /\ EvalIdle /\ FsIdle /\ ReaderIdle /\ NotifyIdle
    /\ ServerIdle /\ PutIdle /\ DebounceIdle /\ LockIdle

\* the dedup keys of two evaluations
SpecKeys == InitKeys /\ [][KeyNext]_vars

(***************************************************************************)
(* cmd/server: the locks.  s.mu guards Server.clients, statesMu guards     *)
(* tickerStates and every TickerState has its own mu.  Each call of Lock   *)
(* or RLock is a step of its own, so that a goroutine can be seen waiting; *)
(* a write to a socket returns, with or without an error.  One ticker.     *)
(***************************************************************************)
\* sync.RWMutex: RLock waits while a writer holds the lock or has called Lock
RLockFree(mu) == mu.writer = NoProc /\ mu.pending = {}
RLock(mu, p) == [mu EXCEPT !.readers = @ \cup {p}]
\* an RUnlock that leaves the goroutine among the readers
RUnlockKept(mu, p) == mu
RUnlock(mu, p) == [mu EXCEPT !.readers = @ \ {p}]
\* Lock is called: readers arriving from now on wait
LockCall(mu, p) == [mu EXCEPT !.pending = @ \cup {p}]
LockFree(mu) == mu.writer = NoProc /\ mu.readers = {}
Lock(mu, p) == [mu EXCEPT !.writer = p, !.pending = @ \ {p}]
Unlock(mu, p) == [mu EXCEPT !.writer = NoProc]
HoldsRead(mu, p) == p \in mu.readers
HoldsWrite(mu, p) == mu.writer = p

\* goroutine p moves on to pc
Goto(p, pc) == [lkPc EXCEPT ![p] = pc]
\* a lock is released: was it held
Released(bad, held) == [bad EXCEPT !.unheld = @ \/ ~held]
\* Server.clients is read or written: was the lock it needs held
Accessed(bad, guarded) == [bad EXCEPT !.unguarded = @ \/ ~guarded]

\* /analyze: the handler has upgraded the connection and calls Register,
\* which calls s.mu.Lock()
ConnRegister(c) ==
    /\ lkPc[ConnProc(c)] = "idle"
    /\ lkPc' = Goto(ConnProc(c), "register")
    /\ lkMu' = LockCall(lkMu, ConnProc(c))
    /\ UNCHANGED << lkMutex, lkClients, lkStates, lkLocal, lkBad, LockOthers >>

\* Register gets the write lock
ConnRegisterLock(c) ==
    /\ lkPc[ConnProc(c)] = "register"
    /\ LockFree(lkMu)
    /\ lkPc' = Goto(ConnProc(c), "insert")
    /\ lkMu' = Lock(lkMu, ConnProc(c))
    /\ UNCHANGED << lkMutex, lkClients, lkStates, lkLocal, lkBad, LockOthers >>

\* Register inserts the connection, reads the size, unlocks and offers the
\* connection on the register channel without waiting: Run takes it when it
\* is at its select.  The handler then sends the history, which takes no
\* lock, and starts the ping goroutine
ConnInsert(c) ==
    /\ lkPc[ConnProc(c)] = "insert"
    /\ lkClients' = lkClients \cup {c}
    /\ lkMu' = Unlock(lkMu, ConnProc(c))
    /\ lkBad' = Released(Accessed(lkBad, HoldsWrite(lkMu, ConnProc(c))),
                         HoldsWrite(lkMu, ConnProc(c)))
    /\ lkPc' = IF lkPc[RunProc] = "idle"
               THEN [lkPc EXCEPT ![ConnProc(c)] = "ping", ![RunProc] = "counting"]
               ELSE Goto(ConnProc(c), "ping")
    /\ UNCHANGED << lkMutex, lkStates, lkLocal, LockOthers >>

\* a ping write fails: the goroutine returns and its deferred Unregister
\* sends the connection on the unregister channel
ConnPingFails(c) ==
    /\ lkPc[ConnProc(c)] = "ping"
    /\ lkPc' = Goto(ConnProc(c), "unregister")
    /\ UNCHANGED << lkMu, lkMutex, lkClients, lkStates, lkLocal, lkBad, LockOthers >>

\* Run, at its select, receives from the register channel and calls RLock:
\* see ConnInsert.  Run gets the read lock
RunCountLock ==
    /\ lkPc[RunProc] = "counting"
    /\ RLockFree(lkMu)
    /\ lkPc' = Goto(RunProc, "counted")
    /\ lkMu' = RLock(lkMu, RunProc)
    /\ UNCHANGED << lkMutex, lkClients, lkStates, lkLocal, lkBad, LockOthers >>

\* Run reads the size of the registry and unlocks
RunCount ==
    /\ lkPc[RunProc] = "counted"
    /\ lkPc' = Goto(RunProc, "idle")
    /\ lkMu' = RUnlock(lkMu, RunProc)
    /\ lkBad' = Released(Accessed(lkBad, HoldsRead(lkMu, RunProc)),
                         HoldsRead(lkMu, RunProc))
    /\ UNCHANGED << lkMutex, lkClients, lkStates, lkLocal, LockOthers >>

\* Run, at its select, receives a connection from the unregister channel, on
\* which the connection's goroutine waits, and calls s.mu.Lock()
RunReceive(c) ==
    /\ lkPc[RunProc] = "idle"
    /\ lkPc[ConnProc(c)] = "unregister"
    /\ lkPc' = [lkPc EXCEPT ![RunProc] = "unregistering", ![ConnProc(c)] = "closed"]
    /\ lkLocal' = [lkLocal EXCEPT !.conn = c]
    /\ lkMu' = LockCall(lkMu, RunProc)
    /\ UNCHANGED << lkMutex, lkClients, lkStates, lkBad, LockOthers >>

\* Run gets the write lock
RunLock ==
    /\ lkPc[RunProc] = "unregistering"
    /\ LockFree(lkMu)
    /\ lkPc' = Goto(RunProc, "deleting")
    /\ lkMu' = Lock(lkMu, RunProc)
    /\ UNCHANGED << lkMutex, lkClients, lkStates, lkLocal, lkBad, LockOthers >>

\* Run deletes the connection, unlocks and then logs len(s.clients)
RunDelete ==
    /\ lkPc[RunProc] = "deleting"
    /\ lkPc' = Goto(RunProc, "idle")
    /\ lkClients' = lkClients \ {lkLocal.conn}
    /\ lkMu' = Unlock(lkMu, RunProc)
    /\ lkBad' = Accessed(Released(Accessed(lkBad, HoldsWrite(lkMu, RunProc)),
                                  HoldsWrite(lkMu, RunProc)),
                         HoldsRead(lkMu', RunProc) \/ HoldsWrite(lkMu', RunProc))
    /\ UNCHANGED << lkMutex, lkStates, lkLocal, LockOthers >>

\* a goroutine calls GetSubscribedTickers, which calls s.mu.RLock(): the
\* watcher on a write event, the sweep on a tick of its ticker
SubsCall(p) ==
    /\ p \in {WatcherProc, SweepProc}
    /\ lkPc[p] = "idle"
    /\ lkPc' = Goto(p, "subs")
    /\ UNCHANGED << lkMu, lkMutex, lkClients, lkStates, lkLocal, lkBad, LockOthers >>

\* GetSubscribedTickers gets the read lock
SubsLock(p) ==
    /\ lkPc[p] = "subs"
    /\ RLockFree(lkMu)
    /\ lkPc' = Goto(p, "subsHeld")
    /\ lkMu' = RLock(lkMu, p)
    /\ UNCHANGED << lkMutex, lkClients, lkStates, lkLocal, lkBad, LockOthers >>

\* GetSubscribedTickers ranges over the registry and unlocks.  The watcher
\* drops the event of a ticker without subscribers and otherwise calls
\* getTickerState; the sweep goes on to statesMu.Lock()
SubsRange(p) ==
    /\ lkPc[p] = "subsHeld"
    /\ lkMu' = RUnlock(lkMu, p)
    /\ lkBad' = Released(Accessed(lkBad, HoldsRead(lkMu, p)), HoldsRead(lkMu, p))
    /\ IF p = WatcherProc
       THEN /\ lkPc' = Goto(p, IF lkClients = {} THEN "idle" ELSE "states")
            /\ UNCHANGED lkLocal
       ELSE /\ lkPc' = Goto(p, "states")
            /\ lkLocal' = [lkLocal EXCEPT !.subscribed = lkClients # {}]
    /\ UNCHANGED << lkMutex, lkClients, lkStates, LockOthers >>

\* statesMu.Lock() returns: in getTickerState for the watcher, in the sweep
StatesLock(p) ==
    /\ lkPc[p] = "states"
    /\ lkMutex.statesMu = NoProc
    /\ lkPc' = Goto(p, "statesHeld")
    /\ lkMutex' = [lkMutex EXCEPT !.statesMu = p]
    /\ UNCHANGED << lkMu, lkClients, lkStates, lkLocal, lkBad, LockOthers >>

\* getTickerState returns the ticker's state, created with its initial-load
\* goroutine when there is none, and its deferred statesMu.Unlock() runs; the
\* watcher calls state.mu.Lock()
WatcherGetState ==
    /\ lkPc[WatcherProc] = "statesHeld"
    /\ LET sid == IF lkStates.cur = 0 THEN lkStates.made + 1 ELSE lkStates.cur
       IN  /\ lkStates' = [cur |-> sid,
                           made |-> IF lkStates.cur = 0 THEN sid ELSE lkStates.made]
           /\ lkLocal' = [lkLocal EXCEPT !.sid = sid]
           /\ lkPc' = IF lkStates.cur = 0
                      THEN [lkPc EXCEPT ![WatcherProc] = "state", ![LoadProc(sid)] = "state"]
                      ELSE Goto(WatcherProc, "state")
    /\ lkMutex' = [lkMutex EXCEPT !.statesMu = NoProc]
    /\ lkBad' = Released(lkBad, lkMutex.statesMu = WatcherProc)
    /\ UNCHANGED << lkMu, lkClients, LockOthers >>

\* the sweep deletes the state of a ticker that had no subscriber when it
\* asked, and unlocks (at most MaxStates states are created)
SweepDelete ==
    /\ lkPc[SweepProc] = "statesHeld"
    /\ lkPc' = Goto(SweepProc, "idle")
    /\ lkStates' = IF ~lkLocal.subscribed /\ lkStates.made < MaxStates
                   THEN [lkStates EXCEPT !.cur = 0]
                   ELSE lkStates
    /\ lkMutex' = [lkMutex EXCEPT !.statesMu = NoProc]
    /\ lkBad' = Released(lkBad, lkMutex.statesMu = SweepProc)
    /\ UNCHANGED << lkMu, lkClients, lkLocal, LockOthers >>

\* the initial load of state sid fails to read the summaries and returns
LoadFails(sid) ==
    /\ lkPc[LoadProc(sid)] = "state"
    /\ lkPc' = Goto(LoadProc(sid), "done")
    /\ UNCHANGED << lkMu, lkMutex, lkClients, lkStates, lkLocal, lkBad, LockOthers >>

\* the state whose mu goroutine p locks
StateOf(p) == IF p = WatcherProc THEN lkLocal.sid ELSE p[2]

\* state.mu.Lock() returns: in the watcher, in the initial load
StateLock(p) ==
    /\ lkPc[p] = "state"
    /\ lkMutex.state[StateOf(p)] = NoProc
    /\ lkPc' = Goto(p, "stateHeld")
    /\ lkMutex' = [lkMutex EXCEPT !.state[StateOf(p)] = p]
    /\ UNCHANGED << lkMu, lkClients, lkStates, lkLocal, lkBad, LockOthers >>

\* a goroutine holding state.mu unlocks it: the initial load when it has set
\* the baseline; the watcher when the read fails or returns nothing, or when
\* all updates are sent
StateUnlock(p) ==
    /\ lkPc[p] \in {"stateHeld", "sent"}
    /\ lkPc' = Goto(p, IF p = WatcherProc THEN "idle" ELSE "done")
    /\ lkMutex' = [lkMutex EXCEPT !.state[StateOf(p)] = NoProc]
    /\ lkBad' = Released(lkBad, lkMutex.state[StateOf(p)] = p)
    /\ UNCHANGED << lkMu, lkClients, lkStates, lkLocal, LockOthers >>

\* the watcher has an update to send and calls SendUpdateForTicker, which
\* calls s.mu.RLock(): for the first aggregate read, or for the next one
WatcherSend ==
    /\ lkPc[WatcherProc] \in {"stateHeld", "sent"}
    /\ lkPc' = Goto(WatcherProc, "send")
    /\ UNCHANGED << lkMu, lkMutex, lkClients, lkStates, lkLocal, lkBad, LockOthers >>

\* SendUpdateForTicker gets the read lock, at its start or after the deletion
\* of a connection, and ranges over what is left of the registry
WatcherSendLock ==
    /\ lkPc[WatcherProc] \in {"send", "relock"}
    /\ RLockFree(lkMu)
    /\ lkPc' = Goto(WatcherProc, "range")
    /\ lkMu' = RLock(lkMu, WatcherProc)
    /\ lkLocal' = [lkLocal EXCEPT !.todo = IF lkPc[WatcherProc] = "send" THEN lkClients
                                          ELSE @ \cap lkClients]
    /\ UNCHANGED << lkMutex, lkClients, lkStates, lkBad, LockOthers >>

\* SendUpdateForTicker writes to the next connection of the range; after an
\* error it releases the read lock and calls s.mu.Lock()
WatcherWrite(c, ok) ==
    /\ lkPc[WatcherProc] = "range"
    /\ c \in lkLocal.todo
    /\ lkLocal' = [lkLocal EXCEPT !.todo = @ \ {c}, !.target = c]
    /\ lkBad' = Released(Accessed(lkBad, HoldsRead(lkMu, WatcherProc)),
                         ok \/ HoldsRead(lkMu, WatcherProc))
    /\ IF ok
       THEN UNCHANGED << lkPc, lkMu >>
       ELSE /\ lkPc' = Goto(WatcherProc, "upgrade")
            /\ lkMu' = LockCall(RUnlock(lkMu, WatcherProc), WatcherProc)
    /\ UNCHANGED << lkMutex, lkClients, lkStates, LockOthers >>

\* SendUpdateForTicker gets the write lock
WatcherUpgradeLock ==
    /\ lkPc[WatcherProc] = "upgrade"
    /\ LockFree(lkMu)
    /\ lkPc' = Goto(WatcherProc, "delete")
    /\ lkMu' = Lock(lkMu, WatcherProc)
    /\ UNCHANGED << lkMutex, lkClients, lkStates, lkLocal, lkBad, LockOthers >>

\* SendUpdateForTicker deletes the connection, unlocks and calls s.mu.RLock()
WatcherDelete ==
    /\ lkPc[WatcherProc] = "delete"
    /\ lkPc' = Goto(WatcherProc, "relock")
    /\ lkClients' = lkClients \ {lkLocal.target}
    /\ lkMu' = Unlock(lkMu, WatcherProc)
    /\ lkBad' = Released(Accessed(lkBad, HoldsWrite(lkMu, WatcherProc)),
                         HoldsWrite(lkMu, WatcherProc))
    /\ UNCHANGED << lkMutex, lkStates, lkLocal, LockOthers >>

\* the range is over: SendUpdateForTicker returns and its deferred
\* s.mu.RUnlock() runs
WatcherSendEnd ==
    /\ lkPc[WatcherProc] = "range"
    /\ lkLocal.todo = {}
    /\ lkPc' = Goto(WatcherProc, "sent")
    /\ lkMu' = RUnlock(lkMu, WatcherProc)
    /\ lkBad' = Released(lkBad, HoldsRead(lkMu, WatcherProc))
    /\ UNCHANGED << lkMutex, lkClients, lkStates, lkLocal, LockOthers >>

LockNext ==
    \/ \E c \in LockConns : ConnRegister(c)
    \/ \E c \in LockConns : ConnRegisterLock(c)
    \/ \E c \in LockConns : ConnInsert(c)
    \/ \E c \in LockConns : ConnPingFails(c)
    \/ RunCountLock
    \/ RunCount
    \/ \E c \in LockConns : RunReceive(c)
    \/ RunLock
    \/ RunDelete
    \/ \E p \in {WatcherProc, SweepProc} : SubsCall(p)
    \/ \E p \in {WatcherProc, SweepProc} : SubsLock(p)
    \/ \E p \in {WatcherProc, SweepProc} : SubsRange(p)
    \/ \E p \in {WatcherProc, SweepProc} : StatesLock(p)
    \/ WatcherGetState
    \/ SweepDelete
    \/ \E sid \in LockStates : LoadFails(sid)
    \/ \E p \in LockProcs : StateLock(p)
    \/ \E p \in LockProcs : StateUnlock(p)
    \/ WatcherSend
    \/ WatcherSendLock
    \/ \E c \in LockConns, ok \in BOOLEAN : WatcherWrite(c, ok)
    \/ WatcherUpgradeLock
    \/ WatcherDelete
    \/ WatcherSendEnd

InitLocks ==
    /\ LockIdle /\ KeyIdle /\ AggIdle /\ EvalIdle /\ FsIdle /\ ReaderIdle /\ NotifyIdle
    /\ ServerIdle /\ PutIdle /\ DebounceIdle

\* the goroutines of cmd/server and their locks
SpecLocks == InitLocks /\ [][LockNext]_vars

\* what goroutine p waits for, by where it is
WantsRead(p) == lkPc[p] \in {"counting", "subs", "send", "relock"}
WantsWrite(p) == lkPc[p] \in {"register", "unregistering", "upgrade"}
WantsStates(p) == lkPc[p] = "states"
WantsState(p) == lkPc[p] = "state"
WantsRun(p) == lkPc[p] = "unregister"

\* the goroutines that goroutine p has to wait for before it can go on
WaitsFor(p) ==
    IF WantsRead(p) THEN ({lkMu.writer} \ {NoProc}) \cup lkMu.pending
    ELSE IF WantsWrite(p) THEN ({lkMu.writer} \ {NoProc}) \cup lkMu.readers
    ELSE IF WantsStates(p) THEN {lkMutex.statesMu} \ {NoProc}
    ELSE IF WantsState(p) THEN {lkMutex.state[StateOf(p)]} \ {NoProc}
    ELSE IF WantsRun(p) /\ lkPc[RunProc] # "idle" THEN {RunProc}
    ELSE {}

\* the largest set of goroutines within S each of which waits, and waits for
\* goroutines of the set only: the goroutines of S that can never go on
RECURSIVE Deadlocked(_)
Deadlocked(S) ==
    LET T == { p \in S : WaitsFor(p) # {} /\ WaitsFor(p) \subseteq S }
    IN  IF T = S THEN S ELSE Deadlocked(T)

(***************************************************************************)
(* Claims on the aggregator and the evaluator.                             *)
(***************************************************************************)
\* total = call + put (float64 addition) and the ratio's sentinel rule
SummaryRule(s) ==
    /\ s.TotalPremium = FAdd(s.CallPremium, s.PutPremium)
    /\ s.CallPutRatio = IF s.PutPremium > 0 THEN FDiv(s.CallPremium, s.PutPremium)
                        ELSE IF s.CallPremium > 0 THEN Rat(InfiniteRatio)
                        ELSE Rat(0)

\* C4: every summary returned by AggregatePremiums, and the summary after each
\* call of UpdatePeriodSummaryIncremental, has TotalPremium = CallPremium +
\* PutPremium and CallPutRatio = Call/Put if Put > 0, -1 if Put is not > 0 and
\* Call > 0, and 0 otherwise.
C4_SummaryRule ==
    /\ \A i \in 1..Len(aggFirst.out) : SummaryRule(aggFirst.out[i])
    /\ \A i \in 1..Len(aggPerm.out) : SummaryRule(aggPerm.out[i])
    /\ inc.set => SummaryRule(inc.s)

\* a summary returned by AggregatePremiums has since been updated incrementally
\* with a tick of its period, and holds call and put premium
C4_Witness ==
    /\ inc.set
    /\ inc.seed > 0
    /\ incNext > inc.seed + 1
    /\ inc.s.CallPremium > 0
    /\ inc.s.PutPremium > 0
    /\ inc.s # AggregatePremiums(SubSeq(aggIn, 1, inc.seed), aggPeriod)[1]

\* C5: AggregatePremiums gives the same summaries for every order of the same
\* ticks (and again on the same list).
C5_OrderIndependent ==
    (aggFirst.done /\ aggPerm.done) => aggPerm.out = aggFirst.out

\* the rule of C6, from the summary's fields
ClaimedTrigger(s, c) ==
    \/ c.CallPremiumThreshold > 0 /\ s.CallPremium >= c.CallPremiumThreshold
    \/ c.PutPremiumThreshold > 0 /\ s.PutPremium >= c.PutPremiumThreshold
    \/ /\ RatGT(c.CallRatioThreshold, Rat(0))
       /\ c.RatioPremiumThreshold > 0
       /\ s.TotalPremium >= c.RatioPremiumThreshold
       /\ RatGE(s.CallPutRatio, c.CallRatioThreshold)
    \/ /\ RatGT(c.PutRatioThreshold, Rat(0))
       /\ c.RatioPremiumThreshold > 0
       /\ s.TotalPremium >= c.RatioPremiumThreshold
       /\ RatGE(IF s.CallPremium > 0 THEN FDiv(s.PutPremium, s.CallPremium)
                ELSE IF s.CallPremium = 0 /\ s.PutPremium > 0 THEN Rat(InfiniteRatio)
                ELSE Rat(0),
                c.PutRatioThreshold)

\* C6: EvaluateThresholds is true exactly when one of the four rules holds; a
\* dimension whose threshold is zero never triggers.
C6_EvaluateIffRule ==
    evResult \in {"true", "false"} =>
        /\ (evResult = "true") <=> ClaimedTrigger(evSummary, evConfig)
        /\ (/\ evConfig.CallPremiumThreshold = 0
            /\ evConfig.PutPremiumThreshold = 0
            /\ evConfig.RatioPremiumThreshold = 0) => evResult = "false"

\* the put/call ratio rule alone triggers, and a ratio rule below its gate does not
C6_Witness ==
    /\ evResult = "true"
    /\ evConfig.CallPremiumThreshold = 0
    /\ evConfig.PutPremiumThreshold = 0
    /\ evConfig.CallRatioThreshold = Rat(0)
    /\ evConfig.PutRatioThreshold = Rat(2)
    /\ evSummary.CallPremium = 5
    /\ evSummary.PutPremium = 10

(***************************************************************************)
(* Claims on the incremental reader.                                       *)
(***************************************************************************)
\* the position just past the last newline of f
RECURSIVE LastNewlinePos(_)
LastNewlinePos(f) ==
    IF f = << >> THEN 0
    ELSE IF f[Len(f)] = Newline THEN Len(f)
    ELSE LastNewlinePos(SubSeq(f, 1, Len(f) - 1))

\* byte i of f is the body of a complete valid record: it starts a line and is
\* followed by its newline
IsRecordAt(f, i) ==
    /\ f[i].kind = "body"
    /\ i = 1 \/ f[i - 1] = Newline
    /\ i < Len(f) /\ f[i + 1] = Newline

\* the complete valid records of f whose bytes lie in (a, b], in file order
RECURSIVE RecordsBetween(_, _, _)
RecordsBetween(f, a, b) ==
    IF a >= b \/ a >= Len(f) THEN << >>
    ELSE IF IsRecordAt(f, a + 1) /\ a + 2 <= b
         THEN << f[a + 1].agg >> \o RecordsBetween(f, a + 1, b)
         ELSE RecordsBetween(f, a + 1, b)

\* C2: a read never returns a record whose newline is not yet in the file: the
\* bytes after the last newline are excluded from its result and its offset,
\* and the read made once the newline is written returns exactly that record.
C2_PartialLineSafe ==
    (rdLast.valid /\ ~rdLast.err) =>
        /\ rdLast.to <= LastNewlinePos(rdLast.file)
        /\ rdLast.aggregates = RecordsBetween(rdLast.file, rdLast.from, rdLast.to)
        /\ (/\ rdPrev.valid
            /\ ~rdPrev.err
            /\ rdPrev.file # << >>
            /\ ~EndsInNewline(rdPrev.file)
            /\ rdLast.file = Append(rdPrev.file, Newline))
           => rdLast.aggregates =
                IF rdPrev.file[Len(rdPrev.file)].kind = "body"
                THEN << rdPrev.file[Len(rdPrev.file)].agg >>
                ELSE << >>

\* the file A\nB gave one record and the offset past the first newline; the
\* read after B's newline gave exactly B
C2_Witness ==
    /\ rdPrev.valid
    /\ rdPrev.file = << Body(TickA), Newline, Body(TickB) >>
    /\ rdPrev.from = 0
    /\ rdPrev.aggregates = << TickA >>
    /\ rdPrev.to = 2
    /\ rdLast.file = << Body(TickA), Newline, Body(TickB), Newline >>
    /\ rdLast.aggregates = << TickB >>
    /\ rdLast.to = 4

\* C3: over reads that each start where the last one ended, the returned
\* offsets never decrease and the reads together return every complete valid
\* record of the file exactly once, in file order.
C3_MonotoneNoSkip ==
    /\ rdLast.valid => rdLast.to >= rdLast.from
    /\ (rdLast.valid /\ rdPrev.valid) => rdLast.to >= rdPrev.to
    /\ rdDelivered = RecordsBetween(file, 0, rdOffset)
    /\ (rdLast.valid /\ ~rdLast.err) =>
          /\ rdOffset = LastNewlinePos(rdLast.file)
          /\ rdDelivered = RecordsBetween(rdLast.file, 0, Len(rdLast.file))

\* three records, the middle one malformed, read in more than one read
C3_Witness ==
    /\ file = << Body(TickA), Newline, Malformed, Newline, Body(TickB), Newline >>
    /\ rdPrev.valid
    /\ rdPrev.from = 2
    /\ rdPrev.to = 4
    /\ rdPrev.aggregates = << >>
    /\ rdLast.from = 4
    /\ rdOffset = 6
    /\ rdDelivered = << TickA, TickB >>

(***************************************************************************)
(* Claims on the notification service's deduplication.                     *)
(***************************************************************************)
\* the evaluations that called sendPushNotification
Pushes == { i \in DOMAIN evalLog : evalLog[i].outcome = "push" }

\* a ticker state that tickerStates or a handler still refers to
Referenced(sid) ==
    sid # 0 /\ (sid = tickerStates \/ \E h \in DOMAIN handlers : handlers[h].sid = sid)

\* C1: for a user, a ticker and a completed period, at most one push is ever
\* dispatched, over any number of handler runs.
C1_OneCompletedDispatch ==
    \A i, j \in Pushes :
        (/\ evalLog[i].complete
         /\ evalLog[j].complete
         /\ evalLog[i].user = evalLog[j].user
         /\ evalLog[i].periodEnd = evalLog[j].periodEnd) => i = j

\* C7: a period that alerted a user while it was in progress does not alert the
\* same user again when it is evaluated as completed.
C7_NoAlertAtClosure ==
    \A i, j \in Pushes :
        ~(/\ i < j
          /\ ~evalLog[i].complete
          /\ evalLog[j].complete
          /\ evalLog[i].sid = evalLog[j].sid
          /\ evalLog[i].user = evalLog[j].user
          /\ evalLog[i].periodEnd = evalLog[j].periodEnd)

\* the threshold part of C8: a push is dispatched only at or above the
\* threshold, and an evaluation that was not a duplicate is turned down only
\* below it
ThresholdRespected ==
    \A i \in DOMAIN evalLog :
        /\ evalLog[i].outcome = "push" => evalLog[i].call >= Threshold
        /\ evalLog[i].outcome = "below" => evalLog[i].call < Threshold

\* C8 as stated: for a user, a ticker and a period in progress, at most one
\* push is dispatched in a 30-second window; with the threshold at 50000 a call
\* premium of 49999 dispatches nothing and one of 50000 dispatches once.
C8_OnePerWindow ==
    /\ ThresholdRespected
    /\ \A i, j \in Pushes :
          (/\ ~evalLog[i].complete
           /\ ~evalLog[j].complete
           /\ evalLog[i].user = evalLog[j].user
           /\ evalLog[i].periodEnd = evalLog[j].periodEnd
           /\ evalLog[i].window = evalLog[j].window) => i = j

\* C8 amended: the evaluations made against one ticker state dispatch at most
\* one push for a user and a period in progress in a 30-second window; with
\* the threshold at 50000 a call premium of 49999 dispatches nothing and one of
\* 50000 dispatches once.
C8_OnePerWindowPerState ==
    /\ ThresholdRespected
    /\ \A i, j \in Pushes :
          (/\ ~evalLog[i].complete
           /\ ~evalLog[j].complete
           /\ evalLog[i].sid = evalLog[j].sid
           /\ evalLog[i].user = evalLog[j].user
           /\ evalLog[i].periodEnd = evalLog[j].periodEnd
           /\ evalLog[i].window = evalLog[j].window) => i = j

\* a period in progress was evaluated three times in one window against one
\* state, at a call premium of exactly the threshold the first time: the first
\* evaluation dispatched and the other two were duplicates
C8_Witness ==
    \E i, j, k \in DOMAIN evalLog :
        /\ i < j /\ j < k
        /\ evalLog[i].outcome = "push"
        /\ evalLog[i].call = Threshold
        /\ ~evalLog[i].complete
        /\ \A m \in {j, k} :
              /\ evalLog[m].outcome = "duplicate"
              /\ evalLog[m].sid = evalLog[i].sid
              /\ evalLog[m].user = evalLog[i].user
              /\ evalLog[m].key = evalLog[i].key
              /\ evalLog[m].window = evalLog[i].window
              /\ evalLog[m].call >= Threshold

\* C9 as stated: when sendPushNotification fails, the dedup key is recorded all
\* the same, and one attempt is made per triggered dedup key of a user: no
\* later evaluation with the key retries it.
C9_OneAttemptPerKey ==
    /\ (lastPush.made /\ ~lastPush.ok /\ Referenced(lastPush.sid)) =>
           lastPush.key \in heap[lastPush.sid].NotifiedPeriods[lastPush.user]
    /\ \A i, j \in Pushes :
          (/\ evalLog[i].user = evalLog[j].user
           /\ evalLog[i].key = evalLog[j].key) => i = j

\* C9 amended: when sendPushNotification fails, the dedup key is recorded all
\* the same in the ticker state's dedup record and the failure is only logged:
\* one attempt is made per triggered dedup key of that record, and no later
\* evaluation against the state with the key retries it.
C9_FailedPushRecorded ==
    /\ (lastPush.made /\ ~lastPush.ok /\ Referenced(lastPush.sid)) =>
           lastPush.key \in heap[lastPush.sid].NotifiedPeriods[lastPush.user]
    /\ \A i, j \in Pushes :
          (/\ evalLog[i].sid = evalLog[j].sid
           /\ evalLog[i].user = evalLog[j].user
           /\ evalLog[i].key = evalLog[j].key) => i = j

\* the last push failed, and the evaluation after it, with the same key, was
\* a duplicate
C9_Witness ==
    /\ lastPush.made
    /\ ~lastPush.ok
    /\ Len(evalLog) >= 2
    /\ LET n == Len(evalLog)
       IN  /\ evalLog[n].outcome = "duplicate"
           /\ evalLog[n].sid = lastPush.sid
           /\ evalLog[n].user = lastPush.user
           /\ evalLog[n].key = lastPush.key
           /\ evalLog[n - 1].outcome = "push"
           /\ evalLog[n - 1].key = lastPush.key
           /\ evalLog[n - 1].call >= Threshold

(***************************************************************************)
(* Claims on the websocket server.                                         *)
(***************************************************************************)
\* C10: on every connection all the history messages are written before any
\* live update is: no update precedes a history message, and none is written
\* while the connection's history is not yet sent in full.
C10_HistoryBeforeLive ==
    \A c \in DOMAIN conns :
        /\ \A i, j \in DOMAIN conns[c].out :
              (i < j /\ conns[c].out[i].kind = "update") => conns[c].out[j].kind # "history"
        /\ conns[c].phase = "history" =>
              \A i \in DOMAIN conns[c].out : conns[c].out[i].kind = "history"

(***************************************************************************)
(* Claims on the registry and the fan-out.                                 *)
(***************************************************************************)
\* a letter without its case
FoldCase(ch) ==
    CASE ch = "A" -> "a"
      [] ch = "B" -> "b"
      [] ch = "X" -> "x"
      [] OTHER -> ch

\* two tickers that differ at most in case
SameTicker(s, t) ==
    /\ Len(s) = Len(t)
    /\ \A i \in DOMAIN s : FoldCase(s[i]) = FoldCase(t[i])

\* the connections that were registered when the call began and have stayed so
RegisteredThroughout == sending.start \ sending.left

\* C11: SendUpdateForTicker(T, summary) writes the summary to every connection
\* registered with T throughout the call and to no connection registered with
\* another ticker; a ticker is registered in upper case, so subscriptions that
\* differ only in case get the same updates.
C11_FanOutByTicker ==
    /\ \A c \in DOMAIN clients :
          /\ clients[c].Ticker = ToUpper(clients[c].Ticker)
          /\ SameTicker(clients[c].Ticker, conns[c].query)
    /\ \A c \in sending.wrote : SameTicker(conns[c].query, sending.ticker)
    /\ sending.pc = "done" =>
          \A c \in RegisteredThroughout :
              SameTicker(conns[c].query, sending.ticker) => c \in sending.wrote

\* a call for AB has returned: the connections that asked for "ab" and for
\* "AB" were written to and the one that asked for "x", registered throughout
\* the call, was not
C11_Witness ==
    /\ sending.pc = "done"
    /\ sending.ticker = << "A", "B" >>
    /\ RegisteredThroughout = {1, 2, 3}
    /\ sending.wrote = {1, 2}
    /\ conns[1].out # << >>
    /\ conns[1].out = conns[2].out
    /\ conns[3].out = << >>

\* C12: every tick that the watcher's incremental read returns for a
\* subscribed ticker leads to exactly one SendUpdateForTicker call, and that
\* call carries a summary of the tick's own bucket
C12_OneUpdatePerTick ==
    \A i \in DOMAIN watcher.ticks :
        /\ Len(watcher.ticks[i].sent) = 1
        /\ watcher.ticks[i].sent[1].PeriodStart = watcher.ticks[i].periodStart

\* C13: while the service runs, the offset stored for the ticker is never
\* below an offset that was stored for it before, also after the reload has
\* evicted the ticker's state and a new one has been created
C13_OffsetNeverDecreases ==
    tickerStates # 0 => StoredOffset(tickerStates, heap) >= maxOffset

\* a record boundary of the log file: its beginning or just after a newline
RecordBoundary(f, pos) == pos = 0 \/ (pos <= Len(f) /\ f[pos] = Newline)

\* C14: in every reachable state the offset stored for the ticker is a record
\* boundary of its log file, the offset that start-up takes from the file
\* size included
C14_OffsetAtRecordBoundary ==
    tickerStates # 0 => RecordBoundary(file, heap[tickerStates].LastFilePosition)

\* the read that handler h makes from the offset of the state it holds
HandlerRead(h) ==
    ReadLogFileIncremental(fileExists, file, heap[handlers[h].sid].LastFilePosition)

\* the read of handler h passes a complete line that is not valid JSON
SkipsMalformed(h) ==
    \E i \in 1..Len(file) :
        /\ file[i] = Malformed
        /\ i > heap[handlers[h].sid].LastFilePosition
        /\ i < HandlerRead(h).position

\* C15: when a handler's incremental read skips a complete line that is not
\* valid JSON, the ticker's stored offset is the returned offset once the
\* handler has finished, also when the read returned no record at all
C15_OffsetPastMalformed ==
    [][\A h \in DOMAIN handlers :
          ( /\ handlers[h].pc = "locked"
            /\ handlers'[h].pc = "idle"
            /\ handlers[h].sid = tickerStates
            /\ ~crashed'
            /\ ~HandlerRead(h).err
            /\ SkipsMalformed(h) )
          => heap'[tickerStates].LastFilePosition = HandlerRead(h).position]_vars

\* C16: once a bucket has closed (now >= its end) the summary that the
\* ticker's state holds for it is left as it is by every step
C16_ClosedBucketImmutable ==
    [][(tickerStates # 0 /\ tickerStates' = tickerStates)
       => \A k \in DOMAIN heap[tickerStates].CurrentPeriods
                   \cap DOMAIN heap'[tickerStates].CurrentPeriods :
             heap[tickerStates].CurrentPeriods[k].PeriodEnd <= clock
             => heap'[tickerStates].CurrentPeriods[k]
                    = heap[tickerStates].CurrentPeriods[k]]_vars

\* the ticks of a list with the given option type in the bucket that starts
\* at periodStart, in the order of the list
RECURSIVE TicksOf(_, _, _, _)
TicksOf(ticks, optionType, periodStart, periodMinutes) ==
    IF ticks = << >> THEN << >>
    ELSE LET t    == ticks[Len(ticks)]
             rest == TicksOf(SubSeq(ticks, 1, Len(ticks) - 1), optionType, periodStart,
                             periodMinutes)
         IN  IF /\ ParseOptionType(t.Symbol) = optionType
                /\ RoundDownToPeriod(t.StartTimestamp, periodMinutes) = periodStart
             THEN Append(rest, t)
             ELSE rest

\* the float64 sum of volume x VWAP x 100 over a list of ticks, first to last
RECURSIVE PremiumSum(_)
PremiumSum(ticks) ==
    IF ticks = << >> THEN 0
    ELSE FAdd(PremiumSum(SubSeq(ticks, 1, Len(ticks) - 1)),
              FMul(ticks[Len(ticks)].Volume, ticks[Len(ticks)].VWAP))

RECURSIVE VolumeSum(_)
VolumeSum(ticks) ==
    IF ticks = << >> THEN 0
    ELSE VolumeSum(SubSeq(ticks, 1, Len(ticks) - 1)) + ticks[Len(ticks)].Volume

\* what C17 says of the summaries out that AggregatePremiums returned for ticks
BucketSums(ticks, out, periodMinutes) ==
    \A i \in DOMAIN out :
        LET s     == out[i]
            calls == TicksOf(ticks, "call", s.PeriodStart, periodMinutes)
            puts  == TicksOf(ticks, "put", s.PeriodStart, periodMinutes)
        IN  /\ s.CallPremium = PremiumSum(calls)
            /\ s.PutPremium = PremiumSum(puts)
            /\ s.CallVolume = VolumeSum(calls)
            /\ s.PutVolume = VolumeSum(puts)
            /\ calls \o puts # << >>
            /\ (puts = << >>) => (s.PutPremium = 0 /\ s.CallPutRatio = Rat(InfiniteRatio))

BucketStarts(ticks, periodMinutes) ==
    { RoundDownToPeriod(ticks[i].StartTimestamp, periodMinutes) :
        i \in { j \in DOMAIN ticks : ParseOptionType(ticks[j].Symbol) # "error" } }

\* one summary per bucket start, in strictly ascending order of PeriodStart,
\* each ending one period after its start
OnePerBucketAscending(ticks, out, periodMinutes) ==
    /\ { out[i].PeriodStart : i \in DOMAIN out } = BucketStarts(ticks, periodMinutes)
    /\ Len(out) = Cardinality(BucketStarts(ticks, periodMinutes))
    /\ \A i \in DOMAIN out : \A j \in DOMAIN out :
          i < j => out[i].PeriodStart < out[j].PeriodStart
    /\ \A i \in DOMAIN out : out[i].PeriodEnd = out[i].PeriodStart + periodMinutes * UnitsPerMinute

\* C18: AggregatePremiums returns exactly one summary per distinct bucket
\* start among the parseable ticks, in strictly ascending order of
\* PeriodStart, each with PeriodEnd = PeriodStart + period width; SendHistory has written to the connection the first
\* summaries of that list, one message each and in that order, and all of
\* them once it has returned without a write error
C18_HistoryAscending ==
    /\ aggFirst.done => OnePerBucketAscending(aggFirst.order, aggFirst.out, aggPeriod)
    /\ \A c \in DOMAIN conns :
          conns[c].phase \in {"history", "live"} =>
             /\ conns[c].sent <= Len(aggFirst.out)
             /\ conns[c].out = [i \in 1..conns[c].sent |->
                                   Message("history", aggFirst.out[i])]
             /\ (conns[c].phase = "live" /\ ~conns[c].broken)
                    => conns[c].sent = Len(aggFirst.out)

\* SendHistory has returned after writing two summaries that AggregatePremiums
\* returned for ticks given with the later bucket first and an unparseable
\* symbol among them
C18_Witness ==
    /\ \E c \in DOMAIN conns :
          /\ conns[c].phase = "live"
          /\ ~conns[c].broken
          /\ Len(conns[c].out) = 2
    /\ Len(aggFirst.order) = 3
    /\ aggFirst.order[1].StartTimestamp > aggFirst.order[3].StartTimestamp
    /\ ParseOptionType(aggFirst.order[2].Symbol) = "error"

\* C19: a subscriber whose writes do not complete, or fail, does not stall the
\* pipeline: the write event of every ticker's file is taken by the watcher,
\* and a SendUpdateForTicker call that has begun returns
C19_PipelineKeepsGoing ==
    /\ \A name \in FileTickers : (name \in events.queued) ~> (name \notin events.queued)
    /\ (sending.pc \notin {"idle", "done"}) ~> (sending.pc = "done")

\* C20: a registered connection whose ping write has failed is eventually out
\* of the registry, with its socket closed
C20_FailedPingUnregisters ==
    \A c \in DOMAIN Requests :
        (conns[c].ping = "failed") ~> (c \notin DOMAIN clients /\ conns[c].closed)

\* Run takes connection c from the unregister channel in this step
Unregisters(c) == conns[c].ping = "failed" /\ conns'[c].ping # "failed"

CreatesState == tickerStates = 0 /\ tickerStates' # 0

\* what holds after a tick of the reload ticker: a state left in tickerStates
\* belongs to a ticker that had a rule at that tick
SweepLeavesInterest == (reloadedAt' # reloadedAt /\ tickerStates' # 0) => rules # {}

C23_MissingFileIsNoData ==
    [][(rdLast' # rdLast /\ ~fileExists) =>
          /\ ~rdLast'.err
          /\ rdLast'.aggregates = << >>
          /\ rdOffset' = rdOffset]_vars

\* the request of connection c lacks the ticker parameter or carries a date
\* that is not of the form YYYY-MM-DD
BadRequest(c) ==
    /\ conns[c].phase # "new"
    /\ \/ conns[c].query = << >>
       \/ conns[c].date \notin { "", Today }

\* C24: a request to /analyze without ticker parameter or with an invalid date
\* is rejected: no connection is registered for it and no history is written
C24_BadRequestRejected ==
    \A c \in DOMAIN conns :
        BadRequest(c) =>
            /\ conns[c].phase = "rejected"
            /\ c \notin DOMAIN clients
            /\ conns[c].out = << >>

\* the requests for ticker t that were answered with success, by their place
\* in the order of the answers
PutsFor(t) ==
    { i \in 1..Len(putLog) : putLog[i].status = 200 /\ putLog[i].body.Ticker = t }

\* request i is a last PUT for its ticker: no successful request for the same
\* ticker started after request i was answered
LastPut(i) ==
    \A j \in PutsFor(putLog[i].body.Ticker) : putLog[j].start < i

\* C25: once the PUT /notifications requests of one user have all been
\* answered, every ticker a successful request named has a stored rule, and
\* that rule is the complete body of a last request for the ticker; so a PUT
\* for one ticker leaves the rules of the user's other tickers as they were
C25_LastPutStored ==
    (\A h \in DOMAIN putHandlers : putHandlers[h].pc = "idle") =>
        \A i \in 1..Len(putLog) :
            putLog[i].status = 200 =>
                /\ ~userFile.truncated
                /\ putLog[i].body.Ticker \in DOMAIN userFile.notifications
                /\ \E j \in PutsFor(putLog[i].body.Ticker) :
                      /\ LastPut(j)
                      /\ userFile.notifications[putLog[i].body.Ticker] = putLog[j].body

\* the handler goroutines that are between state.mu.Lock() and the unlock
InCriticalSection == { h \in DOMAIN handlers : handlers[h].pc = "locked" }

\* C26: of the handler goroutines of the ticker at most one at a time is
\* between its state.mu.Lock() and its unlock, so that the read from
\* LastFilePosition, the update of LastFilePosition and the bucket updates of
\* one handler are not interleaved with those of another handler
C26_HandlersExclusive == Cardinality(InCriticalSection) <= 1

\* what AggregatePremiums computes from the records of the log file up to the
\* offset stored for the ticker
BatchUpToOffset ==
    AggregatePremiums(ReadLogFile(SubSeq(file, 1, StoredOffset(tickerStates, heap))),
                      PeriodMinutes)

\* C27: every bucket held in the CurrentPeriods of the ticker's state equals
\* the summary that AggregatePremiums computes for that bucket from the
\* records of the file up to the stored offset, and the state holds no bucket
\* that the batch result lacks
C27_StreamingEqualsBatch ==
    (tickerStates # 0 /\ ~heap[tickerStates].nilPeriods) =>
        \A p \in DOMAIN heap[tickerStates].CurrentPeriods :
            \E i \in 1..Len(BatchUpToOffset) :
                BatchUpToOffset[i] = heap[tickerStates].CurrentPeriods[p]

\* the summaries pushed to connection c through SendUpdateForTicker, in order
UpdatesTo(c) ==
    SelectSeq(conns[c].out, LAMBDA m : m.kind = "update")

\* summary b carries at least the premiums and the volumes of summary a
NotLess(a, b) ==
    /\ a.CallPremium <= b.CallPremium
    /\ a.PutPremium <= b.PutPremium
    /\ a.CallVolume <= b.CallVolume
    /\ a.PutVolume <= b.PutVolume

\* C28: of the summaries pushed through SendUpdateForTicker for one bucket, a
\* later one never carries a smaller call premium, put premium, call volume
\* or put volume than an earlier one, in whatever order the ticks are read
C28_UpdatesNeverDecrease ==
    \A c \in DOMAIN conns :
        \A i, j \in 1..Len(UpdatesTo(c)) :
            (/\ i < j
             /\ UpdatesTo(c)[i].summary.PeriodStart = UpdatesTo(c)[j].summary.PeriodStart)
            => NotLess(UpdatesTo(c)[i].summary, UpdatesTo(c)[j].summary)

\* C29: the ticker state that the notification service's registry holds,
\* whether getTickerState or the reload created it, has a CurrentPeriods map
\* that was made, and no handler run panics on an assignment to a nil map
C29_MapsInitialised ==
    /\ tickerStates # 0 => ~heap[tickerStates].nilPeriods
    /\ ~crashed

\* the pushes dispatched in the run of handler h when the range over
\* CurrentPeriods visits the periods in the order given: the user, the period
\* and whether the period was complete
Dispatches(h, order, pushOk) ==
    LET log == HandlerEvaluation(h, order, pushOk).log
    IN  { [user |-> log[i].user, periodEnd |-> log[i].periodEnd,
           complete |-> log[i].complete] :
            i \in { k \in (Len(evalLog) + 1)..Len(log) : log[k].outcome = "push" } }

\* handler h holds state.mu and its read will return records to evaluate
AboutToEvaluate(h) ==
    /\ handlers[h].pc = "locked"
    /\ ~crashed
    /\ ~heap[handlers[h].sid].nilPeriods
    /\ ~HandlerRead(h).err
    /\ HandlerRead(h).aggregates # << >>

\* C30: the set of pushes dispatched in one handler run does not depend on
\* the order in which the range over CurrentPeriods visits the periods
C30_OrderIndependent ==
    \A h \in DOMAIN handlers :
        AboutToEvaluate(h) =>
            \A o1, o2 \in MapOrders(HandlerPeriods(h)), pushOk \in [Users -> BOOLEAN] :
                Dispatches(h, o1, pushOk) = Dispatches(h, o2, pushOk)

\* C31: at most one goroutine at a time is inside a write call on a
\* connection: the history writer, the update writer and the ping writer
\* never write to the same connection concurrently
C31_OneWriter ==
    \A c \in DOMAIN conns : Cardinality(conns[c].writing) <= 1

\* the watcher's incremental read returns records while the initial load of
\* the state it holds has not yet set the baseline
ReadsBeforeBaseline ==
    /\ watcher.pc = "state"
    /\ watcher'.pc = "idle"
    /\ srvHeap[watcher.sid].load # "done"
    /\ ReadLogFileIncremental(fileExists, file,
                              srvHeap[watcher.sid].LastFilePosition).aggregates # << >>

\* the initial load sets its baseline on a state whose offset or current
\* period an incremental read has already set
LoadOverwrites ==
    \E sid \in DOMAIN srvHeap :
        /\ srvHeap[sid].load = "read"
        /\ srvHeap'[sid].load = "done"
        /\ srvHeap[sid].LastFilePosition # 0 \/ srvHeap[sid].hasCurrent

\* C32: in the server the baseline of a ticker's state is set by the initial
\* load before the first incremental read returns records for it, and the
\* initial load never overwrites an offset or a CurrentPeriod that an
\* incremental read has produced
C32_BaselineBeforeRead == [][~ReadsBeforeBaseline /\ ~LoadOverwrites]_vars

\* C33: when a handler reads the file its event names from the offset stored
\* in the ticker's state, that offset is 0 or was obtained from that same
\* file: the offset of one day's file is never applied to another day's file
C33_OffsetOfSameFile ==
    \A h \in DOMAIN handlers :
        handlers[h].pc = "locked" =>
            \/ heap[handlers[h].sid].LastFilePosition = 0
            \/ heap[handlers[h].sid].offsetDay = day

\* goroutine g goes on from its sleep to the handler and the read
GoesOnToRead(g) ==
    /\ g \in DOMAIN dbRoutines
    /\ dbRoutines[g].pc = "sleep"
    /\ dbRoutines'[g].pc = "handler"

\* C34: in the notification service a read starts only after a quiet window:
\* when a goroutine goes on to ReadLogFileIncremental, at least 500 ms have
\* passed since the most recent write event on the file
C34_QuietWindow ==
    [][\A g \in DOMAIN dbRoutines :
          GoesOnToRead(g) => dbNow - dbHist.lastWrite >= SleepMillis]_vars

\* C35: the debounce never drops the last event of a burst: as long as no
\* read has started since the most recent write event on the file, the file
\* has an entry in pendingFiles or a goroutine is on its way to the read, so
\* that a read that starts after the event is still to come
C35_LastEventRead ==
    (dbHist.written /\ ~dbHist.read) =>
        \/ dbPending.exists
        \/ \E g \in DOMAIN dbRoutines : dbRoutines[g].pc = "handler"

C37_RegistryGuarded == ~lkBad.unguarded

\* the evaluations that the step adds to the log
NewEvaluations == { i \in DOMAIN evalLog' : i > Len(evalLog) }

\* C38: the notification service never dispatches an alert for a bucket that
\* ended before the MonitoringStartTime of the ticker's state, whatever part
\* of the file the handler has read
C38_NoAlertBeforeStart ==
    [][\A i \in NewEvaluations :
          evalLog'[i].outcome = "push" =>
              evalLog'[i].periodEnd > heap[evalLog'[i].sid].MonitoringStartTime]_vars

\* a state created after the start of the service has read the whole file
\* from offset 0, the file begins with a record of a bucket that ended before
\* the state's MonitoringStartTime, and an alert has been dispatched for it
C38_Witness ==
    \E i \in DOMAIN evalLog :
        LET e == evalLog[i]
            state == heap[e.sid]
            summaries == AnalyzeTickerAndDate(fileExists, file, PeriodMinutes)
        IN  /\ e.outcome = "push"
            /\ state.alloc
            /\ state.MonitoringStartTime > ClockStart
            /\ state.LastFilePosition = Len(file)
            /\ summaries # << >>
            /\ summaries[1].PeriodEnd <= state.MonitoringStartTime

\* C39: dedup keys do not collide: the key of a bucket in progress, in one
\* window, equals neither the key of a completed bucket nor the key of a
\* different pair of a bucket in progress and a window
C39_KeysDistinct ==
    keyOut.done =>
        /\ keyOut.inProgress1 # keyOut.completed2
        /\ << keyIn.end1, keyIn.now1 >> # << keyIn.end2, keyIn.now2 >>
              => keyOut.inProgress1 # keyOut.inProgress2

\* the summary has premium on one side only
OneSided(summary) ==
    \/ summary.CallPremium > 0 /\ summary.PutPremium = 0
    \/ summary.CallPremium = 0 /\ summary.PutPremium > 0

\* C40: a bucket with premium on one side only satisfies neither ratio rule
\* of EvaluateThresholds, whatever the ratio floors and the gate: when
\* EvaluateThresholds returns true for it, a premium threshold was met
C40_OneSidedNoRatio ==
    (evResult # "none" /\ OneSided(evSummary)) =>
        /\ ~CallRatioRule(evSummary, evConfig)
        /\ ~PutRatioRule(evSummary, evConfig)
        /\ evResult = "true" =>
              \/ /\ evConfig.CallPremiumThreshold > 0
                 /\ evSummary.CallPremium >= evConfig.CallPremiumThreshold
              \/ /\ evConfig.PutPremiumThreshold > 0
                 /\ evSummary.PutPremium >= evConfig.PutPremiumThreshold

\* a bucket of calls only, its ratio the sentinel, evaluated against ratio
\* floors above 0 with the gate met and no premium threshold: no alert
C40_Witness ==
    /\ evResult = "false"
    /\ evSummary.CallPremium > 0
    /\ evSummary.PutPremium = 0
    /\ evSummary.CallPutRatio = Rat(InfiniteRatio)
    /\ RatGT(evConfig.CallRatioThreshold, Rat(0))
    /\ RatGT(evConfig.PutRatioThreshold, Rat(0))
    /\ evConfig.RatioPremiumThreshold > 0
    /\ evSummary.TotalPremium >= evConfig.RatioPremiumThreshold

====
